---- MODULE Spec2Model ----
(***************************************************************************)
(* Model of the http-tunnel relay's request/response rendezvous:           *)
(* the public-request handler (handle_forwarding / wait_for_response), the *)
(* agent-message handler (handle_response), the channel-open and           *)
(* channel-close handlers, the scheduled cleanup, and the two DynamoDB     *)
(* tables they share.                                                      *)
(*                                                                         *)
(* Strings that the code inspects character by character (paths, tunnel    *)
(* ids) are sequences of one-character strings.  DynamoDB items are        *)
(* functions from attribute names to values, so that "attribute exists"    *)
(* is membership in DOMAIN.  A table is a function from keys to items.     *)
(* PutItem overwrites, UpdateItem without a condition expression creates   *)
(* the item when the key is absent, DeleteItem is idempotent.              *)
(***************************************************************************)
EXTENDS Integers, Sequences, FiniteSets, TLC

VARIABLES
    now,          \* wall clock, seconds (current_timestamp_secs)
    connections,  \* connections table: connectionId -> item
    pending,      \* pending-requests table: requestId -> item
    pc,           \* per public request: position in handle_forwarding
    path,         \* per public request: request.path as received
    conn,         \* per public request: connection_id found by the lookup
    rid,          \* per public request: request_id minted
    start,        \* per public request: clock when wait_for_response began
    got,          \* per public request: HttpResponse read by wait_for_response
    result,       \* per public request: what handle_forwarding returned
    idCounter,    \* number of request ids minted so far
    agentInbox,   \* http_request envelopes delivered to the agent channel
    agentMsgs,    \* number of agent messages processed
    opened,       \* connection ids the transport has issued
    transitions,  \* per request id: pending -> completed changes (history)
    \* the forwarder's connection manager (ConnectionManager::run)
    fstate,           \* ConnectionState
    mpc,              \* position of the run loop
    reconnect_delay,  \* ms
    attempt,          \* consecutive reconnects
    gen,              \* number of connections established so far
    delays,           \* delays slept since the last handshake (history)
    failsBefore,      \* failures that preceded the last handshake (history)
    \* the relay's handling of the ready message (handle_ready_message)
    rpc,              \* position of the handler
    retry_count,
    delay_ms,
    sends,            \* post_to_connection calls of this invocation (history)
    waits,            \* sleeps of this invocation, ms (history)
    rresult,          \* what the handler returned
    established,      \* connection_established is on its way to the forwarder
    \* the tasks of each connection (handle_connection)
    alive,            \* per connection: tasks still running
    chanOpen,         \* per connection: the WebSocket is open
    queue,            \* per connection: messages in the outgoing mpsc channel
    staleOp,          \* a task acted for a connection already given up (history)
    \* one http_request at the forwarder (handle_http_request)
    freq,             \* the request received
    fcall,            \* outcome of the local HTTP call
    freply,           \* message queued in reply
    \* the relay's dispatch of one agent message (handle_response)
    dmsg,             \* the message the latest step dispatched (history)
    dbefore,          \* the pending table before that step (history)
    \* the reply of handle_connect to each channel
    creply,           \* per connection id: what handle_connect returned
    \* one call of a function of the relay, with its input and its output
    called,           \* the function called, "none" before the call
    arg,              \* its input
    res,              \* what it returned
    \* one invocation of handle_cleanup
    cleanup,          \* position, the tick's now, scanned keys, counts
    \* the reader of a connection and the request tasks it forked
    rtasks,           \* reader's position, tasks calling, tasks sending,
                      \* the reader's latest two log lines (history)
    \* one public request timed in milliseconds, from save_pending_request to
    \* the end of wait_for_response
    wpoll             \* position, wall clock, start, poll_interval, history

rvars == <<now, connections, pending, pc, path, conn, rid, start,
           got, result, idCounter, agentInbox, agentMsgs, opened,
           transitions>>

mvars == <<fstate, mpc, reconnect_delay, attempt, gen, delays, failsBefore>>

yvars == <<rpc, retry_count, delay_ms, sends, waits, rresult, established>>

tvars == <<alive, chanOpen, queue, staleOp>>

xvars == <<freq, fcall, freply, dmsg, dbefore>>

nvars == <<creply, called, arg, res, cleanup, rtasks, wpoll>>

fvars == <<mvars, yvars, tvars, xvars, nvars>>

vars == <<rvars, fvars>>

-----------------------------------------------------------------------------
(* Bounds of the model *)

MaxRequests == 2
MaxAgentMsgs == 2
ClockStep == 26
MaxFailures == 8
MaxConnections == 2
MaxQueue == 1
MaxTasks == 3

(* Program constants *)

REQUEST_TIMEOUT_SECS == 25
PENDING_REQUEST_TTL_SECS == 30
CONNECTION_TTL_SECS == 7200
TUNNEL_ID_LEN == 12
RECONNECT_MIN_DELAY_MS == 1000
RECONNECT_MAX_DELAY_MS == 60000
RECONNECT_MULTIPLIER == 2
READY_MAX_RETRIES == 3
READY_INITIAL_DELAY_MS == 100

Handlers == 1..MaxRequests
RequestIds == 1..MaxRequests
ConnIds == {"c1"}
ChannelIds == {"c1", "c2", "c3"}

None == [none |-> TRUE]

Min(a, b) == IF a < b THEN a ELSE b

-----------------------------------------------------------------------------
(* Strings as character sequences *)

Rep(c, n) == [i \in 1..n |-> c]

LowerAlnum ==
    {"a","b","c","d","e","f","g","h","i","j","k","l","m","n","o","p","q","r",
     "s","t","u","v","w","x","y","z","0","1","2","3","4","5","6","7","8","9"}

\* validate_tunnel_id: the id matches ^[a-z0-9]{12}$
validate_tunnel_id(id) ==
    /\ Len(id) = TUNNEL_ID_LEN
    /\ \A i \in 1..Len(id) : id[i] \in LowerAlnum

RECURSIVE TrimStartSlashes(_)
TrimStartSlashes(s) ==
    IF s # <<>> /\ Head(s) = "/" THEN TrimStartSlashes(Tail(s)) ELSE s

RECURSIVE UpToSlash(_)
UpToSlash(s) ==
    IF s = <<>> \/ Head(s) = "/" THEN <<>> ELSE <<Head(s)>> \o UpToSlash(Tail(s))

\* What follows the first "/" of s (empty when s has none)
AfterSlash(s) ==
    LET n == Len(UpToSlash(s)) IN
    IF n + 1 >= Len(s) THEN <<>> ELSE SubSeq(s, n + 2, Len(s))

\* extract_tunnel_id_from_path: first segment, an error when it is empty
extract_tunnel_id_from_path(p) ==
    LET first == UpToSlash(TrimStartSlashes(p)) IN
    IF first = <<>>
    THEN [ok |-> FALSE, err |-> "Missing tunnel ID in path"]
    ELSE [ok |-> TRUE, val |-> first]

\* strip_tunnel_id_from_path: "/" + remainder, or "/"
strip_tunnel_id_from_path(p) ==
    LET rest == AfterSlash(TrimStartSlashes(p)) IN
    IF rest # <<>> THEN <<"/">> \o rest ELSE <<"/">>

\* Tunnel ids that generate_subdomain can return (12 lowercase alphanumerics)
GeneratedTunnelIds == {Rep("a", TUNNEL_ID_LEN)}

\* Paths of the public requests
PathInputs ==
    { <<"/">> \o Rep("a", 12) \o <<"/", "x">>,       \* well-formed tunnel id
      <<"/">> \o Rep("z", 12) \o <<"/", "f">>,       \* well-formed, no channel
      <<"/", "U", "P", "P", "E", "R", "/", "x">>,    \* uppercase, too short
      <<"/">> \o Rep("A", 12),                       \* uppercase
      <<"/">> \o Rep("a", 13),                       \* too long
      <<"/">> \o Rep("a", 11) \o <<"!">>,            \* special character
      <<"/", ".", ".", "/", ".", ".", "/", "e">>,    \* path traversal
      <<"/">> }                                      \* no tunnel id at all

-----------------------------------------------------------------------------
(* Protocol values *)

ErrorCodes == {"invalid_request", "timeout", "local_service_unavailable",
               "internal_error"}

\* The error codes the agent of the model uses
AgentErrorCodes == {"local_service_unavailable"}

\* encode_body: standard base64 of the bytes
encode_body(bytes) == <<"base64", bytes>>

\* Bodies the agent puts in an http_response (already base64)
AgentBodies == {encode_body("a"), encode_body("b")}

HttpResponse(r, status, headers, body) ==
    [request_id |-> r, status_code |-> status, headers |-> headers,
     body |-> body, processing_time_ms |-> 0]

\* Option<String>::None of Message::Error.request_id
NoRequestId == 0

\* No message (yet)
NoMessage == [type |-> "none"]

\* Messages the agent can send about request id r
AgentMessages(r) ==
    {[type |-> "http_response", response |-> HttpResponse(r, 200, <<>>, b)] :
        b \in AgentBodies}
    \cup
    {[type |-> "error", request_id |-> r, code |-> c, message |-> "m"] :
        c \in AgentErrorCodes}

\* serde_json::to_string / from_str of an HttpResponse
ToJson(resp) ==
    <<"json", resp.request_id, resp.status_code, resp.headers, resp.body,
      resp.processing_time_ms>>

FromJson(s) ==
    [request_id |-> s[2], status_code |-> s[3], headers |-> s[4],
     body |-> s[5], processing_time_ms |-> s[6]]

\* Variant: every agent error becomes a 502
ErrorStatus_Always502(code) == 502

\* handle_error_response: status code for an agent error code
ErrorStatus(code) ==
    CASE code = "invalid_request" -> 400
      [] code = "timeout" -> 504
      [] code = "local_service_unavailable" -> 503
      [] code = "internal_error" -> 502

\* handle_error_response: the synthesized HttpResponse
ErrorResponse(r, code, message) ==
    HttpResponse(r, ErrorStatus(code),
                 [n \in {"Content-Type"} |-> <<"text/plain">>],
                 encode_body(message))

-----------------------------------------------------------------------------
(* Results of handle_forwarding *)

Err(msg) == [kind |-> "Err", message |-> msg]

\* build_api_gateway_response: of each header the first value, nothing in
\* multi_value_headers
build_api_gateway_response(resp) ==
    [kind |-> "Ok",
     status_code |-> resp.status_code,
     headers |-> [n \in {x \in DOMAIN resp.headers : resp.headers[x] # <<>>}
                    |-> resp.headers[n][1]],
     multi_value_headers |-> <<>>,
     body |-> resp.body,
     is_base64_encoded |-> TRUE]

\* Variant: the timeout answer without the x-tunnel-error header
GatewayTimeoutResponse_NoErrorHeader ==
    [kind |-> "Ok",
     status_code |-> 504,
     headers |-> [n \in {"content-type"} |-> "text/plain"],
     body |-> "Gateway Timeout",
     is_base64_encoded |-> FALSE]

\* The response returned when wait_for_response fails
GatewayTimeoutResponse ==
    [kind |-> "Ok",
     status_code |-> 504,
     headers |-> [n \in {"content-type", "x-tunnel-error"} |->
                    IF n = "content-type" THEN "text/plain"
                    ELSE "Gateway Timeout"],
     body |-> "Gateway Timeout: No response from agent",
     is_base64_encoded |-> FALSE]

-----------------------------------------------------------------------------
(* Store operations *)

\* DeleteItem
Without(table, k) == [x \in DOMAIN table \ {k} |-> table[x]]

\* PutItem
WithItem(table, k, item) == (k :> item) @@ table

\* calculate_ttl
calculate_ttl(clock, duration) == clock + duration

\* Variant: an id generator that repeats itself
generate_request_id_Repeating(n) == 1

\* generate_request_id: a fresh UUID
generate_request_id(n) == n + 1

\* save_pending_request: the item put.  created_at is one reading of the
\* clock (t1) and calculate_ttl takes another (t2)
PendingItemAt(r, c, t1, t2) ==
    [requestId |-> r, connectionId |-> c, createdAt |-> t1,
     ttl |-> calculate_ttl(t2, PENDING_REQUEST_TTL_SECS),
     status |-> "pending"]

\* save_pending_request when both readings fall in the same second
PendingItem(r, c, clock) == PendingItemAt(r, c, clock, clock)

\* handle_connect: the ConnectionMetadata put; created_at is one reading of
\* the clock (t1) and calculate_ttl takes another (t2)
ConnectionItemAt(c, t, url, t1, t2) ==
    [connectionId |-> c, tunnelId |-> t, publicUrl |-> url,
     createdAt |-> t1, ttl |-> calculate_ttl(t2, CONNECTION_TTL_SECS)]

\* Variant: an update that sets the status and leaves the blob out
SetCompleted_StatusOnly(table, k, data) ==
    LET old == IF k \in DOMAIN table THEN table[k] ELSE [requestId |-> k] IN
    (k :> (("status" :> "completed") @@ old)) @@ table

\* UpdateItem "SET #status = :status, responseData = :data" on key k,
\* no condition expression: the item is created when it does not exist
SetCompleted(table, k, data) ==
    LET old == IF k \in DOMAIN table THEN table[k] ELSE [requestId |-> k] IN
    WithItem(table, k,
             ("status" :> "completed") @@ ("responseData" :> data) @@ old)

\* update_pending_request_with_response
update_pending_request_with_response(table, resp) ==
    SetCompleted(table, resp.request_id, ToJson(resp))

\* handle_error_response
handle_error_response(table, r, code, message) ==
    SetCompleted(table, r, ToJson(ErrorResponse(r, code, message)))

\* lookup_connection_by_tunnel_id: the items the index query can return
LookupByTunnel(tunnel) ==
    {c \in DOMAIN connections : connections[c].tunnelId = tunnel}

\* cleanup_expired_items: the scan filter
Expired(item, clock) == "ttl" \in DOMAIN item /\ item.ttl < clock

cleanup_expired_items(table, clock) ==
    [k \in {x \in DOMAIN table : ~Expired(table[x], clock)} |-> table[k]]

\* Variant: a polling loop without a budget
TimedOut_Never(h) == FALSE

\* wait_for_response: start.elapsed() > timeout
TimedOut(h) == now - start[h] > REQUEST_TIMEOUT_SECS

StatusOf(table, k) ==
    IF k \in DOMAIN table /\ "status" \in DOMAIN table[k]
    THEN table[k].status ELSE "none"

\* History: count the pending -> completed changes between two table states
Count(old, new) ==
    [r \in RequestIds |->
        IF StatusOf(old, r) = "pending" /\ StatusOf(new, r) = "completed"
        THEN Min(transitions[r] + 1, 2) ELSE transitions[r]]

-----------------------------------------------------------------------------
Init ==
    /\ now = 0
    /\ connections = <<>>
    /\ pending = <<>>
    /\ pc = [h \in Handlers |-> "idle"]
    /\ path = [h \in Handlers |-> <<>>]
    /\ conn = [h \in Handlers |-> "none"]
    /\ rid = [h \in Handlers |-> 0]
    /\ start = [h \in Handlers |-> 0]
    /\ got = [h \in Handlers |-> None]
    /\ result = [h \in Handlers |-> None]
    /\ idCounter = 0
    /\ agentInbox = {}
    /\ agentMsgs = 0
    /\ opened = {}
    /\ transitions = [r \in RequestIds |-> 0]
    /\ fstate = "Disconnected"
    /\ mpc = "start"
    /\ reconnect_delay = RECONNECT_MIN_DELAY_MS
    /\ attempt = 0
    /\ gen = 0
    /\ delays = <<>>
    /\ failsBefore = -1
    /\ rpc = "idle"
    /\ retry_count = 0
    /\ delay_ms = READY_INITIAL_DELAY_MS
    /\ sends = 0
    /\ waits = <<>>
    /\ rresult = "none"
    /\ established = FALSE
    /\ alive = [g \in 1..MaxConnections |-> {}]
    /\ chanOpen = [g \in 1..MaxConnections |-> FALSE]
    /\ queue = [g \in 1..MaxConnections |-> 0]
    /\ staleOp = "none"
    /\ freq = NoMessage
    /\ fcall = "none"
    /\ freply = NoMessage
    /\ dmsg = NoMessage
    /\ dbefore = <<>>
    /\ creply = [c \in ChannelIds |-> None]
    /\ called = "none"
    /\ arg = None
    /\ res = None
    /\ cleanup = [pc |-> "idle"]
    /\ rtasks = [reader |-> "next", calling |-> 0, sending |-> 0, log |-> <<>>]
    /\ wpoll = [pc |-> "idle"]

hvars == <<pc, path, conn, rid, start, got, result>>

\* Time passes.  Time matters to the relay only through the budget of a
\* waiting request and the ttl of a stored record: the clock of the model
\* advances while one of them has yet to run out.
Tick ==
    /\ \/ \E h \in Handlers :
             pc[h] = "poll" /\ now - start[h] <= REQUEST_TIMEOUT_SECS
       \/ \E r \in DOMAIN pending :
             "ttl" \in DOMAIN pending[r] /\ ~Expired(pending[r], now)
    /\ now' = now + ClockStep
    /\ UNCHANGED <<connections, pending, hvars, idCounter, agentInbox,
                   agentMsgs, opened, transitions>>
    /\ UNCHANGED fvars

\* The $connect events of the model: whether REQUIRE_AUTH is "true", what
\* the Authorization header carries (nothing, a value without the Bearer
\* prefix, or a Bearer token that is valid, forged or expired), what the
\* token query parameter carries, and how the PutItem ends;
\* ENABLE_SUBDOMAIN_ROUTING is left at its default.
ConnectEvents ==
    {[required |-> q, authorization |-> a, token |-> k, put |-> p,
      subdomain_routing |-> TRUE] :
        q \in BOOLEAN,
        a \in {"absent", "Basic", "valid", "forged", "expired"},
        k \in {"absent", "valid", "forged", "expired"},
        p \in {"ok", "AccessDeniedException", "ThrottlingException"}}

\* Variant: an authentication that does not look at the expiry of a token
authenticate_request_IgnoringExp(request) ==
    LET extracted ==
            IF request.authorization \notin {"absent", "Basic"}
            THEN request.authorization
            ELSE request.token
    IN  IF ~request.required THEN "Ok"
        ELSE IF extracted \in {"valid", "expired"} THEN "Ok"
        ELSE "Err"

\* authenticate_request, with extract_token (the Authorization header
\* first, then the query parameter) and validate_token (signature and exp)
authenticate_request(request) ==
    LET extracted ==
            IF request.authorization \notin {"absent", "Basic"}
            THEN request.authorization
            ELSE request.token
    IN  IF ~request.required THEN "Ok"
        ELSE IF extracted = "absent" THEN "Err"
        ELSE IF extracted = "valid" THEN "Ok"
        ELSE "Err"

\* sanitize_error: the detail is logged, the client gets a fixed text
sanitize_error(e) == "Internal server error"

\* Texts of the errors of the store, the transport and the serializer
InternalErrors ==
    {"AccessDeniedException", "ThrottlingException", "GoneException"}

\* The map_err closures of the handlers: what the handler returns when step
\* fails with error e.  handle_connect sanitizes; handle_forwarding formats
\* the error into its message.
map_err(handler, step, e) ==
    CASE handler = "handle_connect" -> sanitize_error(e)
      [] handler = "handle_forwarding" /\ step = "save_pending_request" ->
             <<"Failed to save request: ", e>>
      [] handler = "handle_forwarding" /\ step = "to_string" ->
             <<"Failed to serialize request: ", e>>
      [] handler = "handle_forwarding" /\ step = "send_to_connection" ->
             <<"Failed to forward request to agent: ", e>>

\* Variant: the path-based URL as the primary URL in either routing mode
public_url_PathBased(t, subdomain_routing) ==
    [host |-> <<"domain">>, path |-> <<"/">> \o t]

\* handle_connect: the primary URL of tunnel id t.  With
\* ENABLE_SUBDOMAIN_ROUTING "true" (the default) it is the subdomain URL
\* https://{tunnel_id}.{domain}, otherwise https://{domain}/{tunnel_id}
public_url(t, subdomain_routing) ==
    IF subdomain_routing
    THEN [host |-> <<t, "domain">>, path |-> <<>>]
    ELSE [host |-> <<"domain">>, path |-> <<"/">> \o t]

\* handle_connect: authenticate, mint a tunnel id, put the connection item
Connect(c, t, event) ==
    /\ c \notin opened
    /\ opened' = opened \cup {c}
    /\ IF authenticate_request(event) = "Err"
       THEN /\ creply' = [creply EXCEPT ![c] =
                    [kind |-> "Ok", status_code |-> 401,
                     body |-> "Unauthorized"]]
            /\ UNCHANGED connections
       ELSE IF event.put # "ok"
       THEN /\ creply' = [creply EXCEPT ![c] =
                    Err(map_err("handle_connect", "save_connection_metadata",
                                event.put))]
            /\ UNCHANGED connections
       ELSE /\ connections' = WithItem(connections, c,
                    ConnectionItemAt(c, t,
                        public_url(t, event.subdomain_routing), now, now))
            /\ creply' = [creply EXCEPT ![c] =
                    [kind |-> "Ok", status_code |-> 200]]
    /\ UNCHANGED <<now, pending, hvars, idCounter, agentInbox, agentMsgs,
                   transitions>>
    /\ UNCHANGED <<mvars, yvars, tvars, xvars, called, arg, res,
                   cleanup, rtasks, wpoll>>

\* handle_disconnect: delete the connection item
Disconnect(c) ==
    /\ c \in DOMAIN connections
    /\ connections' = Without(connections, c)
    /\ UNCHANGED <<now, pending, hvars, idCounter, agentInbox, agentMsgs,
                   opened, transitions>>
    /\ UNCHANGED fvars

\* handle_forwarding, up to and including the connection lookup
PublicRequest(h, p) ==
    /\ pc[h] = "idle"
    /\ IF h = 1 THEN TRUE ELSE pc[h - 1] # "idle"
    /\ path' = [path EXCEPT ![h] = p]
    /\ LET t == extract_tunnel_id_from_path(p) IN
       IF ~t.ok
       THEN /\ pc' = [pc EXCEPT ![h] = "done"]
            /\ result' = [result EXCEPT ![h] =
                  Err(<<"Invalid request path - missing tunnel ID: ", t.err>>)]
            /\ conn' = conn
       ELSE IF LookupByTunnel(t.val) = {}
       THEN /\ pc' = [pc EXCEPT ![h] = "done"]
            /\ result' = [result EXCEPT ![h] =
                  Err(<<"Tunnel not found for ID: ", t.val>>)]
            /\ conn' = conn
       ELSE /\ \E c \in LookupByTunnel(t.val) : conn' = [conn EXCEPT ![h] = c]
            /\ pc' = [pc EXCEPT ![h] = "save"]
            /\ result' = result
    /\ UNCHANGED <<now, connections, pending, rid, start, got,
                   idCounter, agentInbox, agentMsgs,
                   opened, transitions>>
    /\ UNCHANGED fvars

\* handle_forwarding: generate_request_id, save_pending_request
SavePending(h) ==
    /\ pc[h] = "save"
    /\ LET r == generate_request_id(idCounter) IN
        /\ rid' = [rid EXCEPT ![h] = r]
        /\ pending' = WithItem(pending, r, PendingItem(r, conn[h], now))
        /\ transitions' = Count(pending, pending')
    /\ idCounter' = idCounter + 1
    /\ pc' = [pc EXCEPT ![h] = "send"]
    /\ UNCHANGED <<now, connections, path, conn, start, got, result,
                   agentInbox, agentMsgs, opened>>
    /\ UNCHANGED fvars

\* Variant: a failed save that is logged, after which the request goes on
SavePendingFail_GoesOn(h) ==
    /\ pc[h] = "save"
    /\ rid' = [rid EXCEPT ![h] = generate_request_id(idCounter)]
    /\ idCounter' = idCounter + 1
    /\ pc' = [pc EXCEPT ![h] = "send"]
    /\ UNCHANGED <<now, connections, pending, path, conn, start, got, result,
                   agentInbox, agentMsgs, opened, transitions>>
    /\ UNCHANGED fvars

\* handle_forwarding: generate_request_id, save_pending_request fails and
\* the handler returns the error
SavePendingFail(h) ==
    /\ pc[h] = "save"
    /\ rid' = [rid EXCEPT ![h] = generate_request_id(idCounter)]
    /\ idCounter' = idCounter + 1
    /\ pc' = [pc EXCEPT ![h] = "done"]
    /\ result' = [result EXCEPT ![h] =
          Err(map_err("handle_forwarding", "save_pending_request",
                      "ThrottlingException"))]
    /\ UNCHANGED <<now, connections, pending, path, conn, start, got,
                   agentInbox, agentMsgs, opened, transitions>>
    /\ UNCHANGED fvars

\* handle_forwarding: send_to_connection succeeds, wait_for_response begins
SendOk(h) ==
    /\ pc[h] = "send"
    /\ conn[h] \in DOMAIN connections
    /\ agentInbox' = agentInbox \cup
          {[request_id |-> rid[h], connection_id |-> conn[h],
            uri |-> strip_tunnel_id_from_path(path[h])]}
    /\ start' = [start EXCEPT ![h] = now]
    /\ pc' = [pc EXCEPT ![h] = "poll"]
    /\ UNCHANGED <<now, connections, pending, path, conn, rid, got, result,
                   idCounter, agentMsgs, opened, transitions>>
    /\ UNCHANGED fvars

\* handle_forwarding: send_to_connection fails
SendFail(h) ==
    /\ pc[h] = "send"
    /\ pc' = [pc EXCEPT ![h] = "done"]
    /\ result' = [result EXCEPT ![h] =
          Err(map_err("handle_forwarding", "send_to_connection",
                      "GoneException"))]
    /\ UNCHANGED <<now, connections, pending, path, conn, rid, start, got,
                   idCounter, agentInbox, agentMsgs, opened, transitions>>
    /\ UNCHANGED fvars

\* Variant: a polling loop that reads the record of the first request
PollKey_First(h) == 1

\* wait_for_response: the key the loop reads
PollKey(h) == rid[h]

\* wait_for_response: the budget has elapsed; handle_forwarding answers 504
PollTimeout(h) ==
    /\ pc[h] = "poll"
    /\ TimedOut(h)
    /\ pc' = [pc EXCEPT ![h] = "done"]
    /\ result' = [result EXCEPT ![h] = GatewayTimeoutResponse]
    /\ UNCHANGED <<now, connections, pending, path, conn, rid, start, got,
                   idCounter, agentInbox, agentMsgs, opened, transitions>>
    /\ UNCHANGED fvars

\* wait_for_response: one get_item and what the loop does with it
Poll(h) ==
    /\ pc[h] = "poll"
    /\ ~TimedOut(h)
    /\ LET k == PollKey(h)
           found == k \in DOMAIN pending
           item == pending[k]
       IN
       IF found /\ "status" \notin DOMAIN item
       THEN \* "Missing status in DynamoDB item"
            /\ pc' = [pc EXCEPT ![h] = "done"]
            /\ result' = [result EXCEPT ![h] = GatewayTimeoutResponse]
            /\ UNCHANGED got
       ELSE IF found /\ item.status = "completed"
       THEN IF "responseData" \notin DOMAIN item
            THEN \* "Missing responseData in completed request"
                 /\ pc' = [pc EXCEPT ![h] = "done"]
                 /\ result' = [result EXCEPT ![h] = GatewayTimeoutResponse]
                 /\ UNCHANGED got
            ELSE /\ got' = [got EXCEPT ![h] = FromJson(item.responseData)]
                 /\ pc' = [pc EXCEPT ![h] = "delete"]
                 /\ UNCHANGED result
       ELSE \* not there or still pending: sleep(poll_interval); the time
            \* the sleep takes passes by Tick
            /\ UNCHANGED <<pc, got, result>>
    /\ UNCHANGED <<now, connections, pending, path, conn, rid, start,
                   idCounter, agentInbox, agentMsgs,
                   opened, transitions>>
    /\ UNCHANGED fvars

\* Variant: a failed delete is surfaced to the public client
ReturnAfterDelete_Surfaced(resp, deleted) ==
    IF deleted THEN build_api_gateway_response(resp)
    ELSE Err(<<"Failed to clean up pending request">>)

\* wait_for_response: a failed delete_item is logged and Ok(response) is
\* returned either way; handle_forwarding builds the response from it
ReturnAfterDelete(resp, deleted) == build_api_gateway_response(resp)

\* wait_for_response: delete_item (which may fail), then the response
DeleteAndReturn(h) ==
    /\ pc[h] = "delete"
    /\ \E deleted \in BOOLEAN :
          /\ pending' = IF deleted THEN Without(pending, PollKey(h))
                        ELSE pending
          /\ result' = [result EXCEPT
                          ![h] = ReturnAfterDelete(got[h], deleted)]
    /\ transitions' = Count(pending, pending')
    /\ pc' = [pc EXCEPT ![h] = "done"]
    /\ UNCHANGED <<now, connections, path, conn, rid, start, got, idCounter,
                   agentInbox, agentMsgs, opened>>
    /\ UNCHANGED fvars

\* handle_response: what one agent message does to the pending table
ApplyAgentMessage(table, m) ==
    IF m.type = "http_response"
    THEN update_pending_request_with_response(table, m.response)
    ELSE IF m.type = "error"
    THEN IF m.request_id # NoRequestId
         THEN handle_error_response(table, m.request_id, m.code, m.message)
         ELSE table
    ELSE table  \* ping, pong

\* handle_response: an http_response or error from the agent is processed
AgentMessage(r, m) ==
    /\ agentMsgs < MaxAgentMsgs
    /\ \E e \in agentInbox : e.request_id = r
    /\ agentMsgs' = agentMsgs + 1
    /\ pending' = ApplyAgentMessage(pending, m)
    /\ transitions' = Count(pending, pending')
    /\ UNCHANGED <<now, connections, hvars, idCounter, agentInbox, opened>>
    /\ UNCHANGED fvars

\* handle_cleanup: delete the expired items of both tables
Cleanup ==
    /\ connections' = cleanup_expired_items(connections, now)
    /\ pending' = cleanup_expired_items(pending, now)
    /\ pending' # pending \/ connections' # connections
    /\ transitions' = Count(pending, pending')
    /\ UNCHANGED <<now, hvars, idCounter, agentInbox, agentMsgs,
                   opened>>
    /\ UNCHANGED fvars

Next ==
    \/ Tick
    \/ \E c \in ConnIds, t \in GeneratedTunnelIds :
           Connect(c, t, [required |-> FALSE, authorization |-> "absent",
                          token |-> "absent", put |-> "ok",
                          subdomain_routing |-> TRUE])
    \/ \E c \in ConnIds : Disconnect(c)
    \/ \E h \in Handlers, p \in PathInputs : PublicRequest(h, p)
    \/ \E h \in Handlers : SavePending(h)
    \/ \E h \in Handlers : SavePendingFail(h)
    \/ \E h \in Handlers : SendOk(h)
    \/ \E h \in Handlers : SendFail(h)
    \/ \E h \in Handlers : PollTimeout(h)
    \/ \E h \in Handlers : Poll(h)
    \/ \E h \in Handlers : DeleteAndReturn(h)
    \/ \E r \in RequestIds : \E m \in AgentMessages(r) : AgentMessage(r, m)
    \/ Cleanup

Spec == Init /\ [][Next]_vars

\* Time advances, and a handler that can take a step of its polling loop
\* takes it: the runtime keeps scheduling a handler until it returns.
FairSpec ==
    /\ Spec
    /\ WF_vars(Tick)
    /\ \A h \in Handlers :
          /\ WF_vars(PollTimeout(h))
          /\ WF_vars(Poll(h))
          /\ WF_vars(DeleteAndReturn(h))

-----------------------------------------------------------------------------
(* The forwarder's connection manager and the relay's ready handler *)

Conns == 1..MaxConnections
Tasks == {"write", "read", "heartbeat"}

\* Variant: a backoff without the cap
NextDelay_Uncapped(d) == d * RECONNECT_MULTIPLIER

\* run: reconnect_delay * multiplier, at most max_delay
NextDelay(d) == Min(d * RECONNECT_MULTIPLIER, RECONNECT_MAX_DELAY_MS)

\* Variant: an established tunnel that keeps the delay reached so far
DelayAfterHandshake_Kept(d) == d

\* run: reconnect_delay = min_delay once the tunnel is established
DelayAfterHandshake(d) == RECONNECT_MIN_DELAY_MS

\* run: top of the loop, state = Connecting
MStart ==
    /\ mpc = "start"
    /\ fstate' = "Connecting"
    /\ mpc' = "connect"
    /\ UNCHANGED <<reconnect_delay, attempt, gen, delays, failsBefore>>
    /\ UNCHANGED <<rvars, xvars, nvars, yvars, tvars>>

\* establish_connection: connect_async or the send of ready fails
ConnectFail ==
    /\ mpc = "connect"
    /\ Len(delays) < MaxFailures
    /\ mpc' = "backoff"
    /\ UNCHANGED <<fstate, reconnect_delay, attempt, gen, delays, failsBefore>>
    /\ UNCHANGED <<rvars, xvars, nvars, yvars, tvars>>

\* establish_connection: connected, ready sent; the relay's handle_response
\* is invoked with the ready message
ConnectOk ==
    /\ mpc = "connect"
    /\ rpc \in {"idle", "done"}
    /\ mpc' = "handshake"
    /\ rpc' = "lookup"
    /\ retry_count' = 0
    /\ delay_ms' = READY_INITIAL_DELAY_MS
    /\ sends' = 0
    /\ waits' = <<>>
    /\ rresult' = "none"
    /\ established' = FALSE
    /\ UNCHANGED <<fstate, reconnect_delay, attempt, gen, delays, failsBefore>>
    /\ UNCHANGED <<rvars, xvars, nvars, tvars>>

\* handle_ready_message: get_item of the connection record
ReadyLookup ==
    /\ rpc = "lookup"
    /\ \E found \in BOOLEAN :
          IF found
          THEN rpc' = "send" /\ UNCHANGED rresult
          ELSE rpc' = "done" /\ rresult' = "Err"
    /\ UNCHANGED <<retry_count, delay_ms, sends, waits, established>>
    /\ UNCHANGED <<rvars, xvars, nvars, mvars, tvars>>

\* Variant: a retry loop that gives up by failing the handler
ReadyGiveUp_Err == "Err"

\* handle_ready_message: after max_retries failures the loop breaks and the
\* handler returns Ok(())
ReadyGiveUp == "Ok"

\* handle_ready_message: one post_to_connection of connection_established
ReadySend ==
    /\ rpc = "send"
    /\ sends' = sends + 1
    /\ \E ok \in BOOLEAN :
          IF ok
          THEN /\ established' = TRUE
               /\ rpc' = "done"
               /\ rresult' = "Ok"
               /\ UNCHANGED retry_count
          ELSE /\ retry_count' = retry_count + 1
               /\ IF retry_count' >= READY_MAX_RETRIES
                  THEN rpc' = "done" /\ rresult' = ReadyGiveUp
                  ELSE rpc' = "sleep" /\ UNCHANGED rresult
               /\ UNCHANGED established
    /\ UNCHANGED <<delay_ms, waits>>
    /\ UNCHANGED <<rvars, xvars, nvars, mvars, tvars>>

\* handle_ready_message: sleep(delay_ms); delay_ms *= 2
ReadySleep ==
    /\ rpc = "sleep"
    /\ waits' = Append(waits, delay_ms)
    /\ delay_ms' = delay_ms * 2
    /\ rpc' = "send"
    /\ UNCHANGED <<retry_count, sends, rresult, established>>
    /\ UNCHANGED <<rvars, xvars, nvars, mvars, tvars>>

\* establish_connection: connection_established received, state = Connected;
\* run: delay and attempt reset; handle_connection spawns the three tasks
HandshakeOk ==
    /\ mpc = "handshake"
    /\ established
    /\ gen < MaxConnections
    /\ fstate' = "Connected"
    /\ reconnect_delay' = DelayAfterHandshake(reconnect_delay)
    /\ attempt' = 0
    /\ failsBefore' = Len(delays)
    /\ delays' = <<>>
    /\ gen' = gen + 1
    /\ established' = FALSE
    /\ alive' = [alive EXCEPT ![gen + 1] = Tasks]
    /\ chanOpen' = [chanOpen EXCEPT ![gen + 1] = TRUE]
    /\ mpc' = "handle"
    /\ UNCHANGED <<rpc, retry_count, delay_ms, sends, waits, rresult>>
    /\ UNCHANGED <<rvars, xvars, nvars, queue, staleOp>>

\* Variant: a handshake timeout after which the connection is served anyway
HandshakeFail_ServedAnyway ==
    /\ mpc = "handshake"
    /\ Len(delays) < MaxFailures
    /\ gen < MaxConnections
    /\ fstate' = "Connected"
    /\ gen' = gen + 1
    /\ alive' = [alive EXCEPT ![gen + 1] = Tasks]
    /\ chanOpen' = [chanOpen EXCEPT ![gen + 1] = TRUE]
    /\ mpc' = "handle"
    /\ UNCHANGED <<reconnect_delay, attempt, delays, failsBefore>>
    /\ UNCHANGED <<rvars, xvars, nvars, yvars, queue, staleOp>>

\* establish_connection: handshake timeout, close or error while waiting
HandshakeFail ==
    /\ mpc = "handshake"
    /\ Len(delays) < MaxFailures
    /\ mpc' = "backoff"
    /\ UNCHANGED <<fstate, reconnect_delay, attempt, gen, delays, failsBefore>>
    /\ UNCHANGED <<rvars, xvars, nvars, yvars, tvars>>

\* Variant: a connection loss that skips the Disconnected state
StateAfterLoss_Reconnecting == "Reconnecting"

\* handle_connection: state = Disconnected after the select
StateAfterLoss == "Disconnected"

\* handle_connection: select! returns when one of the three tasks has ended;
\* the JoinHandles of the other two are dropped, which does not stop them
HandleConnectionEnd ==
    /\ mpc = "handle"
    /\ alive[gen] # Tasks
    /\ fstate' = StateAfterLoss
    /\ mpc' = "backoff"
    /\ UNCHANGED <<reconnect_delay, attempt, gen, delays, failsBefore>>
    /\ UNCHANGED <<rvars, xvars, nvars, yvars, tvars>>

\* run: attempt += 1, state = Reconnecting
Backoff ==
    /\ mpc = "backoff"
    /\ attempt' = attempt + 1
    /\ fstate' = "Reconnecting"
    /\ mpc' = "sleep"
    /\ UNCHANGED <<reconnect_delay, gen, delays, failsBefore>>
    /\ UNCHANGED <<rvars, xvars, nvars, yvars, tvars>>

\* run: sleep(reconnect_delay), then the exponential backoff
Sleep ==
    /\ mpc = "sleep"
    /\ delays' = Append(delays, reconnect_delay)
    /\ reconnect_delay' = NextDelay(reconnect_delay)
    /\ mpc' = "start"
    /\ UNCHANGED <<fstate, attempt, gen, failsBefore>>
    /\ UNCHANGED <<rvars, xvars, nvars, yvars, tvars>>

-----------------------------------------------------------------------------
(* The tasks of a connection: spawn_write_task, spawn_read_task,           *)
(* spawn_heartbeat_task.  A task whose JoinHandle was dropped keeps        *)
(* running until its own loop ends.                                        *)

\* The manager no longer serves connection g
Stale(g) == ~(fstate = "Connected" /\ gen = g)

Mark(g, op) == IF Stale(g) THEN op ELSE staleOp

\* The WebSocket of connection g closes or breaks
TransportDrop(g) ==
    /\ g <= gen
    /\ chanOpen[g]
    /\ chanOpen' = [chanOpen EXCEPT ![g] = FALSE]
    /\ UNCHANGED <<alive, queue, staleOp>>
    /\ UNCHANGED <<rvars, xvars, nvars, mvars, yvars>>

\* spawn_read_task: read.next() yields a frame, or Close / an error / the
\* end of the stream ends the loop
ReadTask(g) ==
    /\ "read" \in alive[g]
    /\ IF chanOpen[g]
       THEN staleOp' = Mark(g, "read") /\ UNCHANGED alive
       ELSE alive' = [alive EXCEPT ![g] = @ \ {"read"}] /\ UNCHANGED staleOp
    /\ UNCHANGED <<chanOpen, queue>>
    /\ UNCHANGED <<rvars, xvars, nvars, mvars, yvars>>

\* spawn_heartbeat_task: a tick; the ping is enqueued while the receiver of
\* the channel lives, a failed send ends the loop
HeartbeatTask(g) ==
    /\ "heartbeat" \in alive[g]
    /\ IF "write" \in alive[g]
       THEN /\ queue[g] < MaxQueue
            /\ queue' = [queue EXCEPT ![g] = @ + 1]
            /\ staleOp' = Mark(g, "enqueue")
            /\ UNCHANGED alive
       ELSE /\ alive' = [alive EXCEPT ![g] = @ \ {"heartbeat"}]
            /\ UNCHANGED <<queue, staleOp>>
    /\ UNCHANGED chanOpen
    /\ UNCHANGED <<rvars, xvars, nvars, mvars, yvars>>

\* spawn_write_task: recv() yields a message that is written to the sink (a
\* failed write ends the loop), or None once every sender is gone
WriteTask(g) ==
    /\ "write" \in alive[g]
    /\ IF queue[g] > 0
       THEN /\ queue' = [queue EXCEPT ![g] = @ - 1]
            /\ IF chanOpen[g]
               THEN staleOp' = Mark(g, "write") /\ UNCHANGED alive
               ELSE /\ alive' = [alive EXCEPT ![g] = @ \ {"write"}]
                    /\ UNCHANGED staleOp
       ELSE /\ alive[g] \cap {"read", "heartbeat"} = {}
            /\ alive' = [alive EXCEPT ![g] = @ \ {"write"}]
            /\ UNCHANGED <<queue, staleOp>>
    /\ UNCHANGED chanOpen
    /\ UNCHANGED <<rvars, xvars, nvars, mvars, yvars>>

ForwarderNext ==
    \/ MStart
    \/ ConnectFail
    \/ ConnectOk
    \/ ReadyLookup
    \/ ReadySend
    \/ ReadySleep
    \/ HandshakeOk
    \/ HandshakeFail
    \/ HandleConnectionEnd
    \/ Backoff
    \/ Sleep
    \/ \E g \in Conns : TransportDrop(g)
    \/ \E g \in Conns : ReadTask(g)
    \/ \E g \in Conns : HeartbeatTask(g)
    \/ \E g \in Conns : WriteTask(g)

ForwarderSpec == Init /\ [][ForwarderNext]_vars

-----------------------------------------------------------------------------
(* One http_request at the forwarder, and the relay's dispatch of agent    *)
(* messages                                                                *)

SupportedMethods ==
    {"GET", "POST", "PUT", "DELETE", "PATCH", "HEAD", "OPTIONS"}

\* Methods of the requests of the model
MethodInputs == {"GET", "OPTIONS", "TRACE", "get"}

\* request.body.is_empty()
EmptyBody == <<>>

\* Bodies of the requests of the model: none, base64, not base64
RequestBodies == {EmptyBody, encode_body("a"), <<"raw", "%">>}

\* decode_body: fails on text that is not base64
decode_body(enc) ==
    IF enc[1] = "base64" THEN [ok |-> TRUE, val |-> enc[2]]
    ELSE [ok |-> FALSE]

\* req_builder.send() and response.bytes(): what the local service does
LocalOutcomes == {"ok", "refused", "timeout", "body_read_failed"}

HttpRequests ==
    {[type |-> "http_request", request_id |-> r, method |-> m, body |-> b] :
        r \in RequestIds, m \in MethodInputs, b \in RequestBodies}

\* handle_http_request: the request gets as far as req_builder.send()
CallMade(req) ==
    /\ req.method \in SupportedMethods
    /\ req.body = EmptyBody \/ decode_body(req.body).ok

\* Variant: replies that all carry the id of the first request
handle_http_request_FirstId(req, outcome) ==
    IF req.method \notin SupportedMethods \/ outcome = "body_read_failed"
    THEN NoMessage
    ELSE IF outcome \in {"refused", "timeout"}
    THEN [type |-> "error", request_id |-> 1,
          code |-> "local_service_unavailable", message |-> outcome]
    ELSE [type |-> "http_response",
          response |-> HttpResponse(1, 200, <<>>, encode_body("a"))]

\* handle_http_request: the message sent on outgoing_tx, NoMessage when the
\* function returns Err before any send
handle_http_request(req, outcome) ==
    IF req.method \notin SupportedMethods
    THEN NoMessage  \* Err(InvalidMessage("Unsupported HTTP method"))
    ELSE IF req.body # EmptyBody /\ ~decode_body(req.body).ok
    THEN NoMessage  \* Err(InvalidMessage("Failed to decode body"))
    ELSE IF outcome \in {"refused", "timeout"}
    THEN [type |-> "error", request_id |-> req.request_id,
          code |-> "local_service_unavailable", message |-> outcome]
    ELSE IF outcome = "body_read_failed"
    THEN NoMessage  \* Err(HttpError) from response.bytes()
    ELSE [type |-> "http_response",
          response |-> HttpResponse(req.request_id, 200, <<>>,
                                    encode_body("a"))]

\* handle_text_message: an http_request arrives, a task is spawned for it
ReceiveRequest(req) ==
    /\ freq = NoMessage
    /\ freq' = req
    /\ UNCHANGED <<fcall, freply, dmsg, dbefore>>
    /\ UNCHANGED <<rvars, mvars, yvars, tvars, nvars>>

\* handle_http_request runs to its end
HandleHttpRequest(outcome) ==
    /\ freq # NoMessage
    /\ fcall = "none"
    /\ fcall' = IF CallMade(freq) THEN outcome ELSE "not_called"
    /\ freply' = handle_http_request(freq, outcome)
    /\ UNCHANGED <<freq, dmsg, dbefore>>
    /\ UNCHANGED <<rvars, mvars, yvars, tvars, nvars>>

\* Messages an agent can send to the relay
RelayMessages ==
    {[type |-> "http_response", response |-> HttpResponse(r, 200, <<>>, b)] :
        r \in RequestIds, b \in {encode_body("a")}}
    \cup
    {[type |-> "error", request_id |-> r, code |-> c, message |-> "m"] :
        r \in RequestIds \cup {NoRequestId}, c \in ErrorCodes}
    \cup
    {[type |-> "ping"], [type |-> "pong"]}

\* Messages the forwarder of the model can reply with
ForwarderReplies ==
    {handle_http_request(req, outcome) :
        req \in HttpRequests, outcome \in LocalOutcomes} \ {NoMessage}

\* save_pending_request for request id r
StorePending(r) ==
    /\ r \notin DOMAIN pending
    /\ pending' = WithItem(pending, r, PendingItem(r, "c1", now))
    /\ dmsg' = NoMessage
    /\ dbefore' = <<>>
    /\ UNCHANGED <<now, connections, hvars, idCounter, agentInbox,
                   agentMsgs, opened, transitions>>
    /\ UNCHANGED <<freq, fcall, freply>>
    /\ UNCHANGED <<mvars, yvars, tvars, nvars>>

\* handle_response: one message of the agent is dispatched
RelayHandle(m) ==
    /\ agentMsgs < MaxAgentMsgs
    /\ agentMsgs' = agentMsgs + 1
    /\ pending' = ApplyAgentMessage(pending, m)
    /\ dmsg' = m
    /\ dbefore' = pending
    /\ UNCHANGED <<now, connections, hvars, idCounter, agentInbox,
                   opened, transitions>>
    /\ UNCHANGED <<freq, fcall, freply>>
    /\ UNCHANGED <<mvars, yvars, tvars, nvars>>

MessageNext ==
    \/ \E req \in HttpRequests : ReceiveRequest(req)
    \/ \E outcome \in LocalOutcomes : HandleHttpRequest(outcome)
    \/ \E r \in RequestIds : StorePending(r)
    \/ \E m \in RelayMessages \cup ForwarderReplies : RelayHandle(m)

MessageSpec == Init /\ [][MessageNext]_vars

-----------------------------------------------------------------------------
(* Functions of the relay, each applied once to an input of a bounded set   *)

\* The shapes of an invocation payload that detect_event_type tells apart:
\* Records (absent, an empty array, first record from aws:dynamodb or from
\* elsewhere), source, detail-type, requestContext with http and routeKey,
\* and httpMethod.
EventPayloads ==
    {[Records |-> r, source |-> s, detail_type |-> d, requestContext |-> c,
      httpMethod |-> m] :
        r \in {"absent", "empty", "aws:dynamodb", "aws:s3"},
        s \in {"absent", "aws.events", "aws.ec2"},
        d \in BOOLEAN,
        c \in {[present |-> FALSE]}
              \cup {[present |-> TRUE, http |-> h, routeKey |-> k] :
                       h \in BOOLEAN,
                       k \in {"absent", "$connect", "$disconnect",
                              "$default", "sendmessage"}},
        m \in BOOLEAN}

\* detect_event_type
detect_event_type(value) ==
    IF value.Records = "aws:dynamodb"
    THEN [kind |-> "Ok", type |-> "DynamoDbStream"]
    ELSE IF value.source = "aws.events" /\ value.detail_type
    THEN [kind |-> "Ok", type |-> "ScheduledCleanup"]
    ELSE IF value.requestContext.present /\ value.requestContext.http
    THEN [kind |-> "Ok", type |-> "HttpApi"]
    ELSE IF value.requestContext.present
            /\ value.requestContext.routeKey # "absent"
    THEN CASE value.requestContext.routeKey = "$connect" ->
                  [kind |-> "Ok", type |-> "WebSocketConnect"]
           [] value.requestContext.routeKey = "$disconnect" ->
                  [kind |-> "Ok", type |-> "WebSocketDisconnect"]
           [] value.requestContext.routeKey = "$default" ->
                  [kind |-> "Ok", type |-> "WebSocketDefault"]
           [] OTHER -> Err("Unknown WebSocket route")
    ELSE IF value.httpMethod
    THEN [kind |-> "Ok", type |-> "HttpApi"]
    ELSE Err("Unable to determine event type from payload")

\* function_handler, up to the dispatch: the event type of the payload
DetectEventType(value) ==
    /\ called = "none"
    /\ called' = "detect_event_type"
    /\ arg' = value
    /\ res' = detect_event_type(value)
    /\ UNCHANGED <<rvars, mvars, yvars, tvars, xvars, creply, cleanup, rtasks, wpoll>>

\* Uuid::new_v4().to_string(): the hyphenated lower-case form of a random
\* UUID of version 4, here with every random digit equal to h
Uuid_to_string(h) ==
    Rep(h, 8) \o <<"-">> \o Rep(h, 4) \o <<"-", "4">> \o Rep(h, 3)
        \o <<"-", "a">> \o Rep(h, 3) \o <<"-">> \o Rep(h, 12)

\* validate_request_id: the id matches
\* ^req_[a-f0-9]{8}-[a-f0-9]{4}-[a-f0-9]{4}-[a-f0-9]{4}-[a-f0-9]{12}$
validate_request_id(id) ==
    /\ Len(id) = 40
    /\ SubSeq(id, 1, 4) = <<"r", "e", "q", "_">>
    /\ \A i \in 5..40 :
          IF i \in {13, 18, 23, 28}
          THEN id[i] = "-"
          ELSE id[i] \in {"a", "b", "c", "d", "e", "f", "0", "1", "2", "3",
                          "4", "5", "6", "7", "8", "9"}

\* handle_forwarding: let request_id = generate_request_id()
MintRequestId(h) ==
    /\ called = "none"
    /\ called' = "generate_request_id"
    /\ arg' = h
    /\ res' = Uuid_to_string(h)
    /\ UNCHANGED <<rvars, mvars, yvars, tvars, xvars, creply, cleanup, rtasks, wpoll>>

\* str::starts_with, str::ends_with
StartsWith(s, p) == Len(s) >= Len(p) /\ SubSeq(s, 1, Len(p)) = p

EndsWith(s, p) ==
    Len(s) >= Len(p) /\ SubSeq(s, Len(s) - Len(p) + 1, Len(s)) = p

\* A body is a sequence of pieces, the stretches of text that the regular
\* expressions of content_rewrite tell apart.  A piece [k, n, v] is
\*   text     v                     text that no expression matches
\*   tag      <v>                   an opening tag
\*   attr     n="v"                 an attribute with a double-quoted value
\*   str      nvn                   a literal in quotes n (' or ")
\*   url      url(nvn)              a CSS url() with quotes n (', " or none)
\*   servers  "servers": [{"url": "v"
\*   script   the tunnel-context script for tunnel id v, inside
\*            <head>...</head> when n = <<"head">>
\* Values are sequences of characters.
Piece(k, n, v) == [k |-> k, n |-> n, v |-> v]

\* body.len(): the bytes of the text the pieces stand for
RECURSIVE ByteLen(_)
ByteLen(body) ==
    IF body = <<>> THEN 0
    ELSE LET p == Head(body)
             l == CASE p.k = "text" -> Len(p.v)
                    [] p.k = "tag" -> Len(p.v) + 2
                    [] p.k = "attr" -> Len(p.n) + 3 + Len(p.v)
                    [] p.k = "str" -> Len(p.v) + 2
                    [] p.k = "url" -> 5 + 2 * Len(p.n) + Len(p.v)
                    [] p.k = "servers" -> 22 + Len(p.v)
                    [] p.k = "script" ->
                           708 + 3 * Len(p.v)
                               + (IF p.n = <<>> THEN 0 ELSE 13)
         IN  l + ByteLen(Tail(body))

\* rewrite_html: the closure should_rewrite_path
should_rewrite_path(target, prefix) ==
    /\ target # <<>>
    /\ ~StartsWith(target, <<"#">>)
    /\ ~StartsWith(target, <<"h", "t", "t", "p", ":", "/", "/">>)
    /\ ~StartsWith(target, <<"h", "t", "t", "p", "s", ":", "/", "/">>)
    /\ ~StartsWith(target, <<"/", "/">>)
    /\ ~StartsWith(target, <<"d", "a", "t", "a", ":">>)
    /\ ~StartsWith(target, prefix \o <<"/">>)
    /\ target # prefix

\* rewrite_inline_javascript: the closure should_rewrite_js_path
should_rewrite_js_path(target, prefix) ==
    /\ Len(target) >= 2
    /\ ~StartsWith(target, prefix \o <<"/">>)
    /\ target # prefix
    /\ \/ StartsWith(target, <<"/", "a", "p", "i">>)
       \/ StartsWith(target, <<"/", "d", "o", "c", "s">>)
       \/ StartsWith(target, <<"/", "o", "p", "e", "n", "a", "p", "i">>)
       \/ StartsWith(target, <<"/", "s", "w", "a", "g", "g", "e", "r">>)
       \/ StartsWith(target, <<"/", "v", "1">>)
       \/ StartsWith(target, <<"/", "v", "2">>)
       \/ StartsWith(target, <<"/", "v", "3">>)
       \/ EndsWith(target, <<".", "j", "s", "o", "n">>)
       \/ EndsWith(target, <<".", "y", "a", "m", "l">>)
       \/ EndsWith(target, <<".", "y", "m", "l">>)

\* inject_tunnel_context: after the first <head>, else after the first
\* <html> inside a new <head>, else in front of the document
inject_tunnel_context(html, tunnel_id) ==
    LET At(name) == {i \in 1..Len(html) :
                        html[i].k = "tag" /\ StartsWith(html[i].v, name)}
        First(S) == CHOOSE i \in S : \A j \in S : i <= j
        Insert(i, p) == SubSeq(html, 1, i) \o <<p>>
                            \o SubSeq(html, i + 1, Len(html))
        head == At(<<"h", "e", "a", "d">>)
        root == At(<<"h", "t", "m", "l">>)
    IN  IF head # {}
        THEN Insert(First(head), Piece("script", <<>>, tunnel_id))
        ELSE IF root # {}
        THEN Insert(First(root), Piece("script", <<"head">>, tunnel_id))
        ELSE <<Piece("script", <<>>, tunnel_id)>> \o html

\* rewrite_html: href, src and action values, then the quoted literals of
\* rewrite_inline_javascript, then inject_tunnel_context
rewrite_html(body, prefix) ==
    LET attrs == {<<"h", "r", "e", "f">>, <<"s", "r", "c">>,
                  <<"a", "c", "t", "i", "o", "n">>}
        js == LowerAlnum \cup {"/", "_", "-", "."}
        Attr(p) ==
            IF /\ p.k = "attr"
               /\ p.n \in attrs
               /\ StartsWith(p.v, <<"/">>)
               /\ should_rewrite_path(p.v, prefix)
            THEN [p EXCEPT !.v = prefix \o @] ELSE p
        Js(p) ==
            IF /\ p.k \in {"attr", "str"}
               /\ StartsWith(p.v, <<"/">>)
               /\ \A i \in 1..Len(p.v) : p.v[i] \in js
               /\ should_rewrite_js_path(p.v, prefix)
            THEN [p EXCEPT !.v = prefix \o @] ELSE p
    IN  inject_tunnel_context([i \in 1..Len(body) |-> Js(Attr(body[i]))],
                              Tail(prefix))

\* rewrite_css: url() values in single quotes, double quotes, no quotes
rewrite_css(body, prefix) ==
    LET should_rewrite(target) ==
            /\ ~StartsWith(target, <<"h", "t", "t", "p", ":", "/", "/">>)
            /\ ~StartsWith(target, <<"h", "t", "t", "p", "s", ":", "/", "/">>)
            /\ ~StartsWith(target, <<"/", "/">>)
            /\ ~StartsWith(target, <<"d", "a", "t", "a", ":">>)
            /\ ~StartsWith(target, prefix \o <<"/">>)
        Url(p) ==
            IF /\ p.k = "url"
               /\ StartsWith(p.v, <<"/">>)
               /\ Len(p.v) >= 2
               /\ should_rewrite(p.v)
            THEN [p EXCEPT !.v = prefix \o @] ELSE p
    IN  [i \in 1..Len(body) |-> Url(body[i])]

\* rewrite_json: the url of an OpenAPI servers field, then the target-like
\* string literals
rewrite_json(body, prefix) ==
    LET word == LowerAlnum \cup {"/", "_", "-"}
        Servers(p) ==
            IF /\ p.k = "servers"
               /\ StartsWith(p.v, <<"/">>)
               /\ ~StartsWith(p.v, prefix \o <<"/">>)
            THEN [p EXCEPT !.v = prefix \o @] ELSE p
        Path(p) ==
            IF /\ \/ p.k = "servers"
                  \/ p.k = "str" /\ p.n = <<"\"">>
               /\ StartsWith(p.v, <<"/">>)
               /\ \A i \in 1..Len(p.v) : p.v[i] \in word
               /\ Len(p.v) >= 2
               /\ ~StartsWith(p.v, prefix \o <<"/">>)
               /\ p.v # prefix
               /\ \/ StartsWith(p.v, <<"/", "a", "p", "i">>)
                  \/ StartsWith(p.v, <<"/", "v", "1">>)
                  \/ StartsWith(p.v, <<"/", "v", "2">>)
                  \/ StartsWith(p.v, <<"/", "v", "3">>)
                  \/ StartsWith(p.v, <<"/", "d", "o", "c", "s">>)
                  \/ StartsWith(p.v, <<"/", "o", "p", "e", "n", "a", "p", "i">>)
                  \/ StartsWith(p.v, <<"/", "s", "w", "a", "g", "g", "e", "r">>)
                  \/ StartsWith(p.v, <<"/", "t", "o", "d", "o", "s">>)
            THEN [p EXCEPT !.v = prefix \o @] ELSE p
    IN  [i \in 1..Len(body) |-> Path(Servers(body[i]))]

\* rewrite_response_content with RewriteStrategy::FullRewrite; the mime
\* type is the content type in lower case up to the first ';', trimmed
rewrite_response_content(body, content_type, tunnel_id) ==
    LET prefix == <<"/">> \o tunnel_id
        mime_type ==
            CASE content_type \in {"text/html", "Text/HTML; charset=utf-8"}
                     -> "text/html"
              [] content_type = "text/css" -> "text/css"
              [] content_type = "application/json" -> "application/json"
              [] OTHER -> content_type
        rewritten ==
            CASE mime_type = "text/html" -> rewrite_html(body, prefix)
              [] mime_type = "text/css" -> rewrite_css(body, prefix)
              [] mime_type = "application/json" -> rewrite_json(body, prefix)
              [] OTHER -> body
    IN  <<rewritten, rewritten # body>>

\* The http_response messages of the model: a status, a body of one or two
\* pieces encoded by the forwarder, and headers as headers_to_map builds
\* them (lower-case names, a list of values per name): a content type or
\* none, with or without content-length and transfer-encoding, and zero to
\* two set-cookie values.
UpstreamResponses ==
    LET id == Rep("a", TUNNEL_ID_LEN)
        api == <<"/", "a", "p", "i">>
        values == {api, <<"/", "x">>, <<"/">> \o id \o api,
                   <<"/", "/", "c">>, <<"#", "s">>,
                   <<"h", "t", "t", "p", "s", ":", "/", "/", "e">>,
                   <<"d", "a", "t", "a", ":", "x">>,
                   <<"/", "/", "c", ".", "j", "s", "o", "n">>}
        text == Piece("text", <<>>, <<"x">>)
        tags == {Piece("tag", <<>>, <<"h", "e", "a", "d">>),
                 Piece("tag", <<>>, <<"h", "t", "m", "l">>)}
        html == {text}
                \cup {Piece("attr", n, v) :
                         n \in {<<"h", "r", "e", "f">>, <<"s", "r", "c">>,
                                <<"a", "c", "t", "i", "o", "n">>},
                         v \in values}
                \cup {Piece("str", q, v) :
                         q \in {<<"'">>, <<"\"">>}, v \in values}
        css == {text}
               \cup {Piece("url", q, v) :
                        q \in {<<"'">>, <<"\"">>, <<>>}, v \in values}
        json == {Piece("str", <<"\"">>, v) : v \in values}
                \cup {Piece("servers", <<>>, v) : v \in values}
        documents ==
            {<<ct, <<p>>>> :
                 ct \in {"text/html", "Text/HTML; charset=utf-8"},
                 p \in html \cup tags}
            \cup {<<ct, <<t, p>>>> :
                     ct \in {"text/html", "Text/HTML; charset=utf-8"},
                     t \in tags, p \in html}
            \cup {<<"text/css", <<p>>>> : p \in css}
            \cup {<<"application/json", <<p>>>> : p \in json}
            \cup {<<ct, <<p>>>> :
                     ct \in {"application/javascript", "image/png", ""},
                     p \in {text, Piece("attr", <<"h", "r", "e", "f">>, api)}}
        Headers(d, cl, te, n) ==
            (IF d[1] = "" THEN <<>> ELSE "content-type" :> <<d[1]>>)
            @@ (IF cl THEN "content-length" :> <<ByteLen(d[2])>> ELSE <<>>)
            @@ (IF te THEN "transfer-encoding" :> <<"chunked">> ELSE <<>>)
            @@ (CASE n = 0 -> <<>>
                  [] n = 1 -> "set-cookie" :> <<"a=1">>
                  [] n = 2 -> "set-cookie" :> <<"a=1", "b=2">>)
    IN  {HttpResponse(1, 200, Headers(d, cl, te, n), encode_body(d[2])) :
             d \in documents, cl \in BOOLEAN, te \in BOOLEAN, n \in 0..2}

\* Variant: a rewriting that leaves the headers of the response alone
apply_content_rewriting_BodyOnly(response, tunnel_id) ==
    LET content_type ==
            IF "content-type" \in DOMAIN response.headers
            THEN response.headers["content-type"][1] ELSE ""
        rewritten == rewrite_response_content(
                         decode_body(response.body).val, content_type,
                         tunnel_id)
    IN  IF rewritten[2]
        THEN [response EXCEPT
                !.body = encode_body(rewritten[1]),
                !.headers = ("x-tunnel-rewrite-applied" :> <<"true">>) @@ @]
        ELSE response

\* handle_forwarding, after the body is decoded: rewrite the content; when
\* it changed, re-encode it, set content-length, remove transfer-encoding
\* and add x-tunnel-rewrite-applied
apply_content_rewriting(response, tunnel_id) ==
    LET content_type ==
            IF "content-type" \in DOMAIN response.headers
               /\ response.headers["content-type"] # <<>>
            THEN response.headers["content-type"][1] ELSE ""
        rewritten == rewrite_response_content(
                         decode_body(response.body).val, content_type,
                         tunnel_id)
        kept == DOMAIN response.headers \ {"transfer-encoding"}
    IN  IF rewritten[2]
        THEN [response EXCEPT
                !.body = encode_body(rewritten[1]),
                !.headers =
                    ("content-length" :> <<ByteLen(rewritten[1])>>)
                    @@ ("x-tunnel-rewrite-applied" :> <<"true">>)
                    @@ [n \in kept |-> response.headers[n]]]
        ELSE response

\* handle_forwarding, from the response that wait_for_response returned to
\* the response for the public client.  res keeps the response after the
\* rewriting (history) beside the one returned.
ReturnResponse(response, tunnel_id) ==
    /\ called = "none"
    /\ called' = "build_api_gateway_response"
    /\ arg' = [response |-> response, tunnel_id |-> tunnel_id]
    /\ res' = IF ~decode_body(response.body).ok
              THEN Err("Failed to decode response body")
              ELSE LET rewritten ==
                           apply_content_rewriting(response, tunnel_id)
                   IN  [kind |-> "Ok", response |-> rewritten,
                        public |-> build_api_gateway_response(rewritten)]
    /\ UNCHANGED <<rvars, mvars, yvars, tvars, xvars, creply, cleanup, rtasks, wpoll>>

\* A step of handle_connect or handle_forwarding fails with error e and the
\* handler returns
FailStep(handler, step, e) ==
    /\ called = "none"
    /\ called' = "map_err"
    /\ arg' = [handler |-> handler, step |-> step, e |-> e]
    /\ res' = Err(map_err(handler, step, e))
    /\ UNCHANGED <<rvars, mvars, yvars, tvars, xvars, creply, cleanup, rtasks, wpoll>>

\* handle_connect and save_pending_request build their record: the first
\* reading of the clock is t1 and the second, d seconds later, is taken by
\* calculate_ttl
BuildRecord(fn, t1, d) ==
    /\ called = "none"
    /\ called' = fn
    /\ arg' = [created_at |-> t1, ttl_read |-> t1 + d]
    /\ res' = IF fn = "save_pending_request"
              THEN PendingItemAt(1, "c1", t1, t1 + d)
              ELSE ConnectionItemAt("c1", Rep("a", TUNNEL_ID_LEN),
                                    public_url(Rep("a", TUNNEL_ID_LEN), TRUE),
                                    t1, t1 + d)
    /\ UNCHANGED <<rvars, mvars, yvars, tvars, xvars, creply, cleanup, rtasks, wpoll>>

FunctionNext ==
    \/ \E fn \in {"save_pending_request", "handle_connect"},
          t1 \in {0, 59, 7200}, d \in {0, 1} : BuildRecord(fn, t1, d)
    \/ \E value \in EventPayloads : DetectEventType(value)
    \/ \E e \in InternalErrors :
           \/ FailStep("handle_connect", "save_connection_metadata", e)
           \/ \E step \in {"save_pending_request", "to_string",
                            "send_to_connection"} :
                  FailStep("handle_forwarding", step, e)
    \/ \E h \in {"0", "7", "a", "f"} : MintRequestId(h)
    \/ \E response \in UpstreamResponses, tunnel_id \in GeneratedTunnelIds :
           ReturnResponse(response, tunnel_id)

FunctionSpec == Init /\ [][FunctionNext]_vars

-----------------------------------------------------------------------------
(* Channels opening and closing: handle_connect for several channels, with  *)
(* every outcome of the authentication and of the PutItem                    *)

\* Values generate_subdomain can return: 12 random characters of [a-z0-9]
TunnelIdPool == {Rep("a", TUNNEL_ID_LEN), Rep("b", TUNNEL_ID_LEN)}

\* Messages that arrive at the relay on a channel of the model
ChannelMessages == {[type |-> "ready"], [type |-> "ping"]} \cup AgentMessages(1)

\* handle_response: message m arrives on channel c (the connection_id of the
\* event's request context).  ready is answered by handle_ready_message with
\* the stored tunnel id and URL, posted unless every retry fails; the other
\* messages are dispatched on their type and request id alone
ChannelMessage(c, m, delivered) ==
    /\ called' = "handle_response"
    /\ arg' = [connection_id |-> c, message |-> m]
    /\ IF m.type = "ready"
       THEN /\ res' =
                 IF c \notin DOMAIN connections
                 THEN [kind |-> "Err", message |-> "Connection not found",
                       sent |-> NoMessage]
                 ELSE [kind |-> "Ok",
                       sent |-> IF delivered
                                THEN [type |-> "connection_established",
                                      connection_id |-> c,
                                      tunnel_id |-> connections[c].tunnelId,
                                      public_url |-> connections[c].publicUrl]
                                ELSE NoMessage]
            /\ UNCHANGED pending
       ELSE /\ res' = [kind |-> "Ok", sent |-> NoMessage]
            /\ pending' = ApplyAgentMessage(pending, m)
    /\ transitions' = Count(pending, pending')
    /\ UNCHANGED <<now, connections, hvars, idCounter, agentInbox, agentMsgs,
                   opened>>
    /\ UNCHANGED <<mvars, yvars, tvars, xvars, creply, cleanup, rtasks, wpoll>>

ConnectNext ==
    \/ \E c \in ChannelIds, t \in TunnelIdPool, event \in ConnectEvents :
           Connect(c, t, event)
    \/ \E c \in ChannelIds : Disconnect(c)

ConnectSpec == Init /\ [][ConnectNext]_vars

\* Channels that open without authentication, in either routing mode, and the
\* messages the relay receives on them
ChannelNext ==
    \/ \E c \in ChannelIds, t \in TunnelIdPool, s \in BOOLEAN :
           Connect(c, t, [required |-> FALSE, authorization |-> "absent",
                          token |-> "absent", put |-> "ok",
                          subdomain_routing |-> s])
    \/ \E c \in ChannelIds : Disconnect(c)
    \/ StorePending(1)
    \/ \E c \in ChannelIds, m \in ChannelMessages, delivered \in BOOLEAN :
           ChannelMessage(c, m, delivered)

ChannelSpec == Init /\ [][ChannelNext]_vars

-----------------------------------------------------------------------------
(* The scheduled cleanup step by step: a Scan of each table, then one       *)
(* DeleteItem per scanned key, while channels open and close and public     *)
(* requests are stored                                                       *)

\* Time passes (current_timestamp_secs): up to the moment a connection
\* record written at time 0 is about to expire, then second by second.
Elapse(d) ==
    /\ now + d <= CONNECTION_TTL_SECS + 1
    /\ d = 1 => now >= CONNECTION_TTL_SECS - 1
    /\ now' = now + d
    /\ UNCHANGED <<connections, pending, hvars, idCounter, agentInbox,
                   agentMsgs, opened, transitions>>
    /\ UNCHANGED fvars

\* handle_cleanup: read the clock, scan the connections table
CleanupScan ==
    /\ cleanup.pc = "idle"
    /\ cleanup' =
          [pc |-> "connections", now |-> now,
           items |-> {k \in DOMAIN connections : Expired(connections[k], now)},
           connectionsDeleted |-> 0, requestsDeleted |-> 0,
           removed |-> 0, unexpired |-> FALSE]
    /\ UNCHANGED <<rvars, mvars, yvars, tvars, xvars, creply, called, arg,
                   res, rtasks, wpoll>>

\* cleanup_expired_items: one pass of the loop over the scanned items, a
\* DeleteItem by key that succeeds (also when the key is gone) or fails.
\* removed and unexpired are history: the records this tick took out of a
\* table, and whether one of them was not expired at the tick's now.
CleanupDelete(table, k, ok) ==
    /\ cleanup.pc = table
    /\ k \in cleanup.items
    /\ LET t == IF table = "connections" THEN connections ELSE pending
           there == k \in DOMAIN t
       IN  /\ cleanup' =
                 [cleanup EXCEPT
                    !.items = @ \ {k},
                    !.connectionsDeleted =
                        IF ok /\ table = "connections" THEN @ + 1 ELSE @,
                    !.requestsDeleted =
                        IF ok /\ table = "pending" THEN @ + 1 ELSE @,
                    !.removed = IF ok /\ there THEN @ + 1 ELSE @,
                    !.unexpired =
                        @ \/ (ok /\ there /\ ~Expired(t[k], cleanup.now))]
           /\ IF table = "connections"
              THEN /\ connections' = IF ok THEN Without(connections, k)
                                     ELSE connections
                   /\ UNCHANGED <<pending, transitions>>
              ELSE /\ pending' = IF ok THEN Without(pending, k) ELSE pending
                   /\ transitions' = Count(pending, pending')
                   /\ UNCHANGED connections
    /\ UNCHANGED <<now, hvars, idCounter, agentInbox, agentMsgs, opened>>
    /\ UNCHANGED <<mvars, yvars, tvars, xvars, creply, called, arg, res,
                   rtasks, wpoll>>

\* handle_cleanup: the connections are done, scan the pending requests
CleanupScanPending ==
    /\ cleanup.pc = "connections"
    /\ cleanup.items = {}
    /\ cleanup' =
          [cleanup EXCEPT
             !.pc = "pending",
             !.items = {k \in DOMAIN pending :
                           Expired(pending[k], cleanup.now)}]
    /\ UNCHANGED <<rvars, mvars, yvars, tvars, xvars, creply, called, arg,
                   res, rtasks, wpoll>>

\* handle_cleanup: return connectionsDeleted and requestsDeleted
CleanupReturn ==
    /\ cleanup.pc = "pending"
    /\ cleanup.items = {}
    /\ cleanup' = [cleanup EXCEPT !.pc = "done"]
    /\ UNCHANGED <<rvars, mvars, yvars, tvars, xvars, creply, called, arg,
                   res, rtasks, wpoll>>

CleanupNext ==
    \/ \E c \in ConnIds, t \in GeneratedTunnelIds :
           Connect(c, t, [required |-> FALSE, authorization |-> "absent",
                          token |-> "absent", put |-> "ok",
                          subdomain_routing |-> TRUE])
    \/ \E c \in ConnIds : Disconnect(c)
    \/ \E h \in Handlers, p \in PathInputs : PublicRequest(h, p)
    \/ \E h \in Handlers : SavePending(h)
    \/ \E d \in {1, CONNECTION_TTL_SECS - 1} : Elapse(d)
    \/ \E c \in ConnIds : ChannelMessage(c, [type |-> "ping"], TRUE)
    \/ CleanupScan
    \/ \E c \in ConnIds, ok \in BOOLEAN : CleanupDelete("connections", c, ok)
    \/ \E r \in RequestIds, ok \in BOOLEAN : CleanupDelete("pending", r, ok)
    \/ CleanupScanPending
    \/ CleanupReturn

CleanupSpec == Init /\ [][CleanupNext]_vars

(***************************************************************************)
(* The outbound queue of one connection and the request tasks.             *)
(* handle_connection creates mpsc::channel(100); the request tasks, the    *)
(* heartbeat task and the reader (for a Pong) send on it with              *)
(* send().await, which waits while the queue is full; the write task       *)
(* takes the messages out.  handle_text_message forks one task for each    *)
(* http_request and returns to the reader at once.                         *)
(***************************************************************************)
OUTGOING_CAPACITY == 100

\* Text frames the relay's side of the transport can deliver besides a
\* well-formed http_request: envelopes with a known tag, an envelope with an
\* unknown tag, and text that is not JSON
TextFrames ==
    {[json |-> TRUE, type |-> "pong"], [json |-> TRUE, type |-> "error"],
     [json |-> TRUE, type |-> "ready"], [json |-> TRUE, type |-> "bogus"],
     [json |-> FALSE, type |-> "pong"]}

\* serde_json::from_str::<Message>(text): the envelope, or a decoding error
\* that handle_text_message wraps in TunnelError::InvalidMessage
from_str(text) ==
    IF text.json /\ text.type \in {"ping", "pong", "ready",
                                   "connection_established", "http_request",
                                   "http_response", "error"}
    THEN [ok |-> TRUE, type |-> text.type]
    ELSE [ok |-> FALSE, err |-> "invalid_message"]

\* History: the reader's log with one more line, the latest two kept
Logged(log, line) ==
    IF Len(log) < 2 THEN Append(log, line) ELSE <<log[2], line>>

\* Variant: a reader that ends on a frame it cannot decode
ReadText_EndsOnError(text) ==
    /\ rtasks.reader = "next"
    /\ rtasks' = [rtasks EXCEPT
                    !.reader = IF from_str(text).ok THEN "next" ELSE "ended",
                    !.log = Logged(@, IF from_str(text).ok
                                      THEN from_str(text).type
                                      ELSE from_str(text).err)]
    /\ UNCHANGED <<rvars, mvars, yvars, tvars, xvars, creply, called, arg, res,
                   cleanup, wpoll>>

\* spawn_read_task reads a text frame that is no http_request:
\* handle_text_message logs a pong, error or unexpected envelope and returns
\* Ok, or returns the decoding error, which the reader logs; either way the
\* loop goes on to read.next()
ReadText(text) ==
    /\ rtasks.reader = "next"
    /\ rtasks' = [rtasks EXCEPT
                    !.log = Logged(@, IF from_str(text).ok
                                      THEN from_str(text).type
                                      ELSE from_str(text).err)]
    /\ UNCHANGED <<rvars, mvars, yvars, tvars, xvars, creply, called, arg, res,
                   cleanup, wpoll>>

\* spawn_read_task reads an http_request envelope; handle_text_message
\* forks handle_http_request for it and does not await the task
ReadHttpRequest ==
    /\ rtasks.reader = "next"
    /\ rtasks.calling + rtasks.sending < MaxTasks
    /\ rtasks' = [rtasks EXCEPT !.calling = @ + 1,
                                !.log = Logged(@, "http_request")]
    /\ UNCHANGED <<rvars, mvars, yvars, tvars, xvars, creply, called, arg, res,
                   cleanup, wpoll>>

\* handle_http_request: the call to the local service returned or failed and
\* the task has its http_response or error message to send
LocalServiceDone ==
    /\ rtasks.calling > 0
    /\ rtasks' = [rtasks EXCEPT !.calling = @ - 1, !.sending = @ + 1]
    /\ UNCHANGED <<rvars, mvars, yvars, tvars, xvars, creply, called, arg, res,
                   cleanup, wpoll>>

\* handle_http_request: response_tx.send(msg).await completes once the queue
\* has room, and the task ends
SendResponse ==
    /\ rtasks.sending > 0
    /\ queue[1] < OUTGOING_CAPACITY
    /\ queue' = [queue EXCEPT ![1] = @ + 1]
    /\ rtasks' = [rtasks EXCEPT !.sending = @ - 1]
    /\ UNCHANGED <<rvars, mvars, yvars, xvars, creply, called, arg, res, cleanup, wpoll>>
    /\ UNCHANGED <<alive, chanOpen, staleOp>>

\* spawn_heartbeat_task: the interval fired and the task sends a ping message
SendHeartbeat ==
    /\ queue[1] < OUTGOING_CAPACITY
    /\ queue' = [queue EXCEPT ![1] = @ + 1]
    /\ UNCHANGED <<rvars, mvars, yvars, xvars, nvars>>
    /\ UNCHANGED <<alive, chanOpen, staleOp>>

\* spawn_read_task reads a WebSocket Ping and goes to send the Pong itself
ReadPing ==
    /\ rtasks.reader = "next"
    /\ rtasks' = [rtasks EXCEPT !.reader = "pong"]
    /\ UNCHANGED <<rvars, mvars, yvars, tvars, xvars, creply, called, arg, res,
                   cleanup, wpoll>>

\* spawn_read_task: outgoing_tx.send(Pong).await completes once the queue has
\* room, and the reader reads the next frame
SendPong ==
    /\ rtasks.reader = "pong"
    /\ queue[1] < OUTGOING_CAPACITY
    /\ queue' = [queue EXCEPT ![1] = @ + 1]
    /\ rtasks' = [rtasks EXCEPT !.reader = "next"]
    /\ UNCHANGED <<rvars, mvars, yvars, xvars, creply, called, arg, res, cleanup, wpoll>>
    /\ UNCHANGED <<alive, chanOpen, staleOp>>

\* spawn_write_task: outgoing_rx.recv() takes one message and writes it
WriteMessage ==
    /\ queue[1] > 0
    /\ queue' = [queue EXCEPT ![1] = @ - 1]
    /\ UNCHANGED <<rvars, mvars, yvars, xvars, nvars>>
    /\ UNCHANGED <<alive, chanOpen, staleOp>>

QueueNext ==
    \/ ReadHttpRequest
    \/ \E text \in TextFrames : ReadText(text)
    \/ LocalServiceDone
    \/ SendResponse
    \/ SendHeartbeat
    \/ ReadPing
    \/ SendPong
    \/ WriteMessage

QueueSpec == Init /\ [][QueueNext]_vars

(***************************************************************************)
(* One public request timed in milliseconds.  handle_forwarding saves the  *)
(* pending record (createdAt and ttl in whole seconds of the wall clock),  *)
(* sends the envelope, which takes as long as the transport takes, and     *)
(* then calls wait_for_response, whose budget starts at that call.         *)
(* wpoll.wall is the wall clock in ms; now is that clock in seconds.       *)
(***************************************************************************)

\* Variant: a poll interval that doubles without a cap
next_poll_interval_Uncapped(d) == d * 2

\* wait_for_response: std::cmp::min(poll_interval * 2, max_poll_interval)
next_poll_interval(d) == Min(d * 2, 500)

\* handle_forwarding: save_pending_request, off ms into the current second
WaitSave(off) ==
    /\ wpoll.pc = "idle"
    /\ pending' = WithItem(pending, 1, PendingItem(1, "c1", now))
    /\ transitions' = Count(pending, pending')
    /\ wpoll' = [pc |-> "send", wall |-> now * 1000 + off]
    /\ UNCHANGED <<now, connections, hvars, idCounter, agentInbox, agentMsgs,
                   opened>>
    /\ UNCHANGED <<mvars, yvars, tvars, xvars, creply, called, arg, res,
                   cleanup, rtasks>>

\* handle_forwarding: send_to_connection returns after lat ms and
\* wait_for_response takes start = Instant::now(), poll_interval = 50 ms
WaitSend(lat) ==
    /\ wpoll.pc = "send"
    /\ agentInbox' = agentInbox \cup
          {[request_id |-> 1, connection_id |-> "c1", uri |-> <<"/">>]}
    /\ wpoll' = [pc |-> "check", wall |-> wpoll.wall + lat,
                 start |-> wpoll.wall + lat, poll_interval |-> 50,
                 sleeps |-> <<>>, readAt |-> 0, timedOut |-> FALSE]
    /\ now' = wpoll'.wall \div 1000
    /\ UNCHANGED <<connections, pending, hvars, idCounter, agentMsgs, opened,
                   transitions>>
    /\ UNCHANGED <<mvars, yvars, tvars, xvars, creply, called, arg, res,
                   cleanup, rtasks>>

\* wait_for_response: the top of the loop.  Past the budget it returns the
\* timeout error; otherwise it starts a get_item, and on a completed record
\* deletes it and returns
WaitRead ==
    /\ wpoll.pc = "check"
    /\ IF wpoll.wall - wpoll.start > REQUEST_TIMEOUT_SECS * 1000
       THEN /\ wpoll' = [wpoll EXCEPT !.pc = "done", !.timedOut = TRUE]
            /\ UNCHANGED pending
       ELSE IF StatusOf(pending, 1) = "completed"
       THEN /\ wpoll' = [wpoll EXCEPT !.pc = "done",
                                      !.readAt = wpoll.wall - wpoll.start]
            /\ pending' = Without(pending, 1)
       ELSE /\ wpoll' = [wpoll EXCEPT !.pc = "sleep",
                                      !.readAt = wpoll.wall - wpoll.start]
            /\ UNCHANGED pending
    /\ transitions' = Count(pending, pending')
    /\ UNCHANGED <<now, connections, hvars, idCounter, agentInbox, agentMsgs,
                   opened>>
    /\ UNCHANGED <<mvars, yvars, tvars, xvars, creply, called, arg, res,
                   cleanup, rtasks>>

\* wait_for_response: tokio::time::sleep(poll_interval), which wakes over ms
\* late, then the next interval
WaitSleep(over) ==
    /\ wpoll.pc = "sleep"
    /\ wpoll' = [wpoll EXCEPT
                   !.pc = "check",
                   !.wall = @ + wpoll.poll_interval + over,
                   !.sleeps = Append(@, wpoll.poll_interval),
                   !.poll_interval = next_poll_interval(@)]
    /\ now' = wpoll'.wall \div 1000
    /\ UNCHANGED <<connections, pending, hvars, idCounter, agentInbox,
                   agentMsgs, opened, transitions>>
    /\ UNCHANGED <<mvars, yvars, tvars, xvars, creply, called, arg, res,
                   cleanup, rtasks>>

WaitNext ==
    \/ \E off \in {0, 999} : WaitSave(off)
    \/ \E lat \in {0, 40, 7000} : WaitSend(lat)
    \/ WaitRead
    \/ \E over \in {0, 1} : WaitSleep(over)
    \/ \E m \in AgentMessages(1) : AgentMessage(1, m)

WaitSpec == Init /\ [][WaitNext]_vars

-----------------------------------------------------------------------------
(* Properties *)

Delivered(h) == \E e \in agentInbox : e.request_id = rid[h]

\* The HttpResponse that an agent message makes the relay store
CarriedBy(m) ==
    IF m.type = "http_response" THEN m.response
    ELSE ErrorResponse(m.request_id, m.code, m.message)

\* C1: the response a public request returns is the one carried by an agent
\* message naming the request id that this request minted, never the
\* response of another request, whatever the order of the replies.
C1_ResponseMatchesRequestId ==
    \A h \in Handlers :
        /\ got[h] # None =>
              /\ got[h].request_id = rid[h]
              /\ got[h] \in {CarriedBy(m) : m \in AgentMessages(rid[h])}
        /\ (pc[h] = "done" /\ got[h] # None) =>
              result[h] = build_api_gateway_response(got[h])

\* C1 witness: the request that arrived second has returned its own reply
\* while the request that arrived first is still waiting.
C1_Witness ==
    /\ rid[1] = 1 /\ pc[1] = "poll"
    /\ rid[2] = 2 /\ pc[2] = "done" /\ got[2] # None
    /\ result[2] = build_api_gateway_response(got[2])

\* C2: once a record is completed with a body, the stored body stays the
\* same for as long as the record exists (until it is taken): no later agent
\* message for the request id changes it.
C2_CompletedBodyStable ==
    [][\A r \in RequestIds :
          (StatusOf(pending, r) = "completed" /\ r \in DOMAIN pending') =>
              /\ StatusOf(pending', r) = "completed"
              /\ pending'[r].responseData = pending[r].responseData]_vars

C4_BlobIffCompleted ==
    /\ \A r \in DOMAIN pending :
          ("responseData" \in DOMAIN pending[r])
              <=> (StatusOf(pending, r) = "completed")
    /\ \A h \in Handlers :
          (Delivered(h) /\ pc[h] = "done"
             /\ result[h] = GatewayTimeoutResponse) => TimedOut(h)
    /\ \A h \in Handlers : pc[h] = "delete" => got[h] # None

\* C4 witness: a handler has read a completed record and its blob.
C4_Witness ==
    \E h \in Handlers :
        /\ pc[h] = "delete"
        /\ got[h] # None
        /\ rid[h] \in DOMAIN pending
        /\ pending[rid[h]].status = "completed"

\* C5: an agent message for a request id that has no record fails and
\* creates no record: processing an agent message never adds a key to the
\* pending table.
C5_CompleteUnknownCreatesNothing ==
    [][agentMsgs' # agentMsgs => DOMAIN pending' \subseteq DOMAIN pending]_vars

\* C6: a handler that reached the await step and returned without having
\* observed a completed record answers 504 with the header
\* x-tunnel-error: Gateway Timeout.
C6_TimeoutIs504 ==
    \A h \in Handlers :
        (pc[h] = "done" /\ Delivered(h) /\ got[h] = None) =>
            /\ result[h].kind = "Ok"
            /\ result[h].status_code = 504
            /\ "x-tunnel-error" \in DOMAIN result[h].headers
            /\ result[h].headers["x-tunnel-error"] = "Gateway Timeout"

\* C6 witness: the agent never replied and the handler has returned after
\* its budget.
C6_Witness ==
    \E h \in Handlers :
        /\ pc[h] = "done" /\ Delivered(h) /\ got[h] = None
        /\ agentMsgs = 0
        /\ TimedOut(h)

\* C7: every record of the pending table is eventually removed by the
\* handler or by TTL / cleanup; in particular no record is ever stored
\* without a ttl.
C7_EveryRecordHasTtl ==
    \A r \in DOMAIN pending : "ttl" \in DOMAIN pending[r]

\* C8: every public request that reaches the await step returns.
C8_AwaitTerminates ==
    \A h \in Handlers : (pc[h] = "poll") ~> (pc[h] = "done")

\* C8 witness: the agent never replied, the record disappeared, and the
\* handler has returned from the await step.
C8_Witness ==
    \E h \in Handlers :
        /\ pc[h] = "done" /\ Delivered(h)
        /\ rid[h] \notin DOMAIN pending
        /\ agentMsgs = 0

\* C9: a public request whose tunnel id has no channel record is answered
\* with status 404.
C9_UnknownTunnelIs404 ==
    \A h \in Handlers :
        (/\ pc[h] = "done"
         /\ extract_tunnel_id_from_path(path[h]).ok
         /\ conn[h] = "none") =>
            /\ result[h].kind = "Ok"
            /\ result[h].status_code = 404

\* C10: a public request whose first path segment does not match
\* ^[a-z0-9]{12}$ is rejected with status 400 and a message containing
\* "Invalid tunnel ID".
C10_InvalidTunnelIdIs400 ==
    \A h \in Handlers :
        (/\ pc[h] = "done"
         /\ ~validate_tunnel_id(UpToSlash(TrimStartSlashes(path[h])))) =>
            /\ result[h].kind = "Ok"
            /\ result[h].status_code = 400
            /\ result[h].body[1] = "Invalid tunnel ID format: "

\* C11: when the send of the http_request envelope fails, the handler has
\* removed the pending record it inserted and answers 502: no record of a
\* request that was never delivered is in the store once the handler is done.
C11_SendFailureTakesPending ==
    \A h \in Handlers :
        (pc[h] = "done" /\ rid[h] # 0 /\ ~Delivered(h)) =>
            /\ rid[h] \notin DOMAIN pending
            /\ result[h].kind = "Ok"
            /\ result[h].status_code = 502

\* C12: on the success path the handler deletes the record after reading
\* the completed response and before returning; a failed delete changes
\* nothing in the table and the response is returned all the same.
C12_DeleteThenReturn ==
    [][\A h \in Handlers :
          (pc[h] = "delete" /\ pc'[h] = "done") =>
              /\ result'[h] = build_api_gateway_response(got[h])
              /\ \/ rid[h] \notin DOMAIN pending'
                 \/ pending' = pending]_vars

\* C12 witness: a handler has returned the response it read although the
\* delete failed: the record it had put is still stored, completed.
C12_Witness ==
    \E h \in Handlers :
        /\ pc[h] = "done" /\ got[h] # None
        /\ result[h] = build_api_gateway_response(got[h])
        /\ rid[h] \in DOMAIN pending
        /\ "ttl" \in DOMAIN pending[rid[h]]
        /\ pending[rid[h]].status = "completed"

\* C13: the delays slept over consecutive failures are 1000, 2000, 4000,
\* 8000, 16000, 32000, 60000, 60000, ... ms: never above 60000, never
\* decreasing.
C13_ReconnectDelays ==
    LET expected == <<1000, 2000, 4000, 8000, 16000, 32000>> IN
    /\ \A i \in 1..Len(delays) :
          /\ delays[i] = IF i <= 6 THEN expected[i] ELSE 60000
          /\ delays[i] <= 60000
    /\ \A i \in 1..(Len(delays) - 1) : delays[i] <= delays[i + 1]

\* C13 witness: eight failures in a row, the last two delays at the cap.
C13_Witness ==
    /\ Len(delays) = 8
    /\ delays[7] = 60000
    /\ delays[8] = 60000

\* C14: a successful handshake resets the reconnect delay: while the
\* connection is served the delay is 1000 ms and the attempt count 0, and
\* the first delay slept after the connection drops is 1000 ms however many
\* failures preceded the handshake.
C14_HandshakeResetsDelay ==
    /\ mpc = "handle" => (reconnect_delay = 1000 /\ attempt = 0)
    /\ (failsBefore >= 0 /\ Len(delays) >= 1) => delays[1] = 1000

\* C14 witness: failures, then a handshake, then a drop and its first delay.
C14_Witness ==
    /\ failsBefore >= 3
    /\ Len(delays) >= 1
    /\ gen = 1

\* C15: the connection state changes only along Disconnected -> Connecting,
\* Connecting -> Connected, Connecting -> Reconnecting, Connected ->
\* Disconnected, Disconnected -> Reconnecting, Reconnecting -> Connecting.
C15_LifecycleEdges ==
    [][\/ fstate' = fstate
       \/ <<fstate, fstate'>> \in
             { <<"Disconnected", "Connecting">>,
               <<"Connecting", "Connected">>,
               <<"Connecting", "Reconnecting">>,
               <<"Connected", "Disconnected">>,
               <<"Disconnected", "Reconnecting">>,
               <<"Reconnecting", "Connecting">> }]_vars

\* C15 witness: a second connection was established after a loss and a
\* failed attempt, so every edge has been walked.
C15_Witness ==
    /\ gen = 2
    /\ fstate = "Connected"
    /\ failsBefore >= 2

\* C16: once the manager has marked a connection Disconnected, no task of
\* that connection reads from its channel, writes to it or enqueues a
\* message.
C16_NoStaleTaskActivity ==
    staleOp = "none"

\* C19: the relay posts connection_established at most 3 times, sleeps
\* 100 ms before the second post and 200 ms before the third, stops at the
\* first success, and returns Ok also after the third failure.
C19_ReadyRetries ==
    /\ sends <= 3
    /\ Len(waits) <= 2
    /\ \A i \in 1..Len(waits) : waits[i] = IF i = 1 THEN 100 ELSE 200
    /\ rpc = "send" => Len(waits) = sends
    /\ (rpc \in {"sleep", "done"} /\ sends >= 1) => Len(waits) = sends - 1
    /\ rpc \in {"send", "sleep"} => (~established /\ retry_count = sends)
    /\ (rpc = "done" /\ sends >= 1) => rresult = "Ok"

\* C19 witness: three posts failed and the handler returned Ok.
C19_Witness ==
    /\ rpc = "done"
    /\ retry_count = 3
    /\ sends = 3
    /\ waits = <<100, 200>>
    /\ rresult = "Ok"

\* C17: an http_request whose method is none of GET, POST, PUT, DELETE,
\* PATCH, HEAD, OPTIONS is answered with an error message of code
\* invalid_request that carries the request's id.
C17_UnknownMethodReplies ==
    (fcall # "none" /\ freq.method \notin
        {"GET", "POST", "PUT", "DELETE", "PATCH", "HEAD", "OPTIONS"}) =>
        /\ freply.type = "error"
        /\ freply.code = "invalid_request"
        /\ freply.request_id = freq.request_id

\* C18: every failed local call of an accepted http_request (refused, timed
\* out, undecodable request body, failure while reading the response body)
\* queues an error message of code local_service_unavailable with the
\* request's id.
C18_FailedCallReplies ==
    (/\ fcall # "none"
     /\ freq.method \in
          {"GET", "POST", "PUT", "DELETE", "PATCH", "HEAD", "OPTIONS"}
     /\ \/ fcall \in {"refused", "timeout", "body_read_failed"}
        \/ freq.body = <<"raw", "%">>) =>
        /\ freply.type = "error"
        /\ freply.code = "local_service_unavailable"
        /\ freply.request_id = freq.request_id

\* C20: an agent error with a request id completes that request with a
\* response of status 400 / 504 / 503 / 502 for invalid_request / timeout /
\* local_service_unavailable / internal_error whose body is the error's
\* message; an error without a request id, a ping and a pong leave the
\* store as it was.
C20_ErrorDispatch ==
    /\ (dmsg.type = "error" /\ dmsg.request_id # 0) =>
          LET r == dmsg.request_id
              resp == FromJson(pending[r].responseData)
          IN /\ r \in DOMAIN pending
             /\ pending[r].status = "completed"
             /\ resp.request_id = r
             /\ resp.status_code =
                   CASE dmsg.code = "invalid_request" -> 400
                     [] dmsg.code = "timeout" -> 504
                     [] dmsg.code = "local_service_unavailable" -> 503
                     [] dmsg.code = "internal_error" -> 502
             /\ resp.body = encode_body(dmsg.message)
             /\ \A k \in DOMAIN pending \ {r} :
                   k \in DOMAIN dbefore /\ pending[k] = dbefore[k]
    /\ (\/ dmsg.type \in {"ping", "pong"}
        \/ dmsg.type = "error" /\ dmsg.request_id = 0) =>
          pending = dbefore

\* C20 witness: an error of code timeout has completed a pending request.
C20_Witness ==
    /\ dmsg.type = "error"
    /\ dmsg.request_id # 0
    /\ dmsg.code = "timeout"
    /\ dmsg.request_id \in DOMAIN dbefore
    /\ dbefore[dmsg.request_id].status = "pending"
    /\ pending[dmsg.request_id].status = "completed"

\* C21: event detection is "first matching rule in the declared order":
\* store records give store_change; the scheduler source gives
\* scheduled_tick; request_context.http gives public_request; a route key
\* $connect, $disconnect or $default gives channel_open, channel_close or
\* agent_message; a top-level http_method gives public_request whenever no
\* earlier rule matched; and the "unable to determine event type" error is
\* returned exactly when no rule matches.
C21_FirstMatchingRule ==
    called = "detect_event_type" =>
        LET c == arg.requestContext
            store == arg.Records = "aws:dynamodb"
            sched == arg.source = "aws.events"
            http == c.present /\ c.http
            route == c.present /\ c.routeKey \in
                         {"$connect", "$disconnect", "$default"}
            expected ==
                IF store THEN [kind |-> "Ok", type |-> "DynamoDbStream"]
                ELSE IF sched THEN [kind |-> "Ok", type |-> "ScheduledCleanup"]
                ELSE IF http THEN [kind |-> "Ok", type |-> "HttpApi"]
                ELSE IF route
                THEN [kind |-> "Ok",
                      type |-> CASE c.routeKey = "$connect" ->
                                        "WebSocketConnect"
                                 [] c.routeKey = "$disconnect" ->
                                        "WebSocketDisconnect"
                                 [] c.routeKey = "$default" ->
                                        "WebSocketDefault"]
                ELSE IF arg.httpMethod THEN [kind |-> "Ok", type |-> "HttpApi"]
                ELSE Err("Unable to determine event type from payload")
        IN  res = expected

\* C22: when authentication is required and neither the Authorization
\* header nor the token query parameter carries a valid token, channel_open
\* replies 401 Unauthorized and puts no channel record; a channel that was
\* answered 401 never has a channel record.
C22_FailedAuthPutsNothing ==
    /\ [](\A c \in ChannelIds :
             (creply[c] # None /\ creply[c].kind = "Ok"
                  /\ creply[c].status_code = 401)
                => c \notin DOMAIN connections)
    /\ [][\A c \in ChannelIds, t \in TunnelIdPool, event \in ConnectEvents :
             (/\ Connect(c, t, event)
              /\ event.required
              /\ event.authorization # "valid"
              /\ event.token # "valid")
                => /\ creply'[c] = [kind |-> "Ok", status_code |-> 401,
                                    body |-> "Unauthorized"]
                   /\ connections' = connections]_vars

\* A channel was answered 401 while another channel is open
C22_Witness ==
    \E c \in ChannelIds :
        /\ creply[c] # None
        /\ creply[c].kind = "Ok"
        /\ creply[c].status_code = 401
        /\ DOMAIN connections # {}

\* C24: tunnel_id is unique over live channel records: no two channel
\* records with different channel ids carry the same tunnel id.
C24_TunnelIdUnique ==
    \A c1, c2 \in DOMAIN connections :
        c1 # c2 => connections[c1].tunnelId # connections[c2].tunnelId

\* C23: a scheduled tick deletes only records whose ttl is strictly less
\* than the tick's now, in either table, and the counts it returns equal the
\* number of records it actually deleted.
C23_CleanupDeletesExpiredAndCounts ==
    /\ cleanup.pc # "idle" => ~cleanup.unexpired
    /\ cleanup.pc = "done" =>
           cleanup.connectionsDeleted + cleanup.requestsDeleted
               = cleanup.removed

\* C25: every request id minted by the relay for a public request has the
\* form req_ followed by a UUID v4 and is accepted by validate_request_id.
C25_RequestIdFormat ==
    called = "generate_request_id" =>
        /\ SubSeq(res, 1, 4) = <<"r", "e", "q", "_">>
        /\ validate_request_id(res)

\* C26: multiple values of one header survive the tunnel: when the agent's
\* http_response carries a header with several values, every one of them
\* is present in the response returned to the public client.
C26_MultiValueHeadersSurvive ==
    (called = "build_api_gateway_response" /\ res.kind = "Ok") =>
        \A n \in DOMAIN arg.response.headers \ {"transfer-encoding",
                                                "content-length"} :
            \A i \in 1..Len(arg.response.headers[n]) :
                LET v == arg.response.headers[n][i]
                IN  \/ /\ n \in DOMAIN res.public.headers
                       /\ res.public.headers[n] = v
                    \/ /\ n \in DOMAIN res.public.multi_value_headers
                       /\ \E j \in 1..Len(res.public.multi_value_headers[n]) :
                              res.public.multi_value_headers[n][j] = v

C29_HtmlRewriteNoOp ==
    (/\ called = "build_api_gateway_response"
     /\ res.kind = "Ok"
     /\ "content-type" \in DOMAIN arg.response.headers
     /\ arg.response.headers["content-type"] = <<"text/html">>) =>
        LET body == decode_body(arg.response.body).val
            prefix == <<"/">> \o arg.tunnel_id
            Skipped(v) ==
                \/ StartsWith(v, prefix \o <<"/">>)
                \/ StartsWith(v, <<"h", "t", "t", "p", "s", ":", "/", "/">>)
                \/ StartsWith(v, <<"/", "/">>)
                \/ StartsWith(v, <<"d", "a", "t", "a", ":">>)
                \/ StartsWith(v, <<"#">>)
        IN  (\A i \in 1..Len(body) :
                 body[i].k \in {"attr", "str"} => Skipped(body[i].v))
                => rewrite_html(body, prefix) = body

\* C27: errors other than validation and not-found are sanitized at the
\* public boundary: when a store write, a transport send or a serialization
\* step fails in the public-request or channel-open handler, the message
\* returned does not depend on the detail of the underlying error (a run
\* that differs only in the internal error text returns the same message).
C27_ErrorsSanitized ==
    called = "map_err" =>
        \A e \in InternalErrors :
            map_err(arg.handler, arg.step, e) = res.message

\* C30: the outbound queue never holds more than 100 messages; a producer
\* leaves its send only by putting its message on the queue (it waits, it
\* does not drop); and while the queue is full and a request task is waiting
\* on it, the reader accepts no further http_request and forks no task.
C30_FullQueueSlowsIntake ==
    /\ [](queue[1] <= OUTGOING_CAPACITY)
    /\ [][/\ rtasks'.sending < rtasks.sending => queue'[1] = queue[1] + 1
          /\ (rtasks.reader = "pong" /\ rtasks'.reader = "next")
                 => queue'[1] = queue[1] + 1
          /\ (queue[1] = OUTGOING_CAPACITY /\ rtasks.sending > 0)
                 => rtasks'.calling <= rtasks.calling]_vars

\* C31: the k-th sleep of the polling loop (k = 0, 1, 2, ...) lasts
\* min(50 * 2^k, 500) ms; the interval never exceeds 500 ms and never
\* decreases; no get_item is started once more than 25 s have elapsed.
C31_PollIntervals ==
    wpoll.pc \in {"check", "sleep", "done"} =>
        /\ \A k \in 1..Len(wpoll.sleeps) :
              /\ wpoll.sleeps[k] = Min(50 * 2^Min(k - 1, 4), 500)
              /\ wpoll.sleeps[k] <= 500
              /\ k > 1 => wpoll.sleeps[k] >= wpoll.sleeps[k - 1]
        /\ wpoll.readAt <= REQUEST_TIMEOUT_SECS * 1000

C31_Witness ==
    /\ wpoll.pc = "done"
    /\ wpoll.timedOut
    /\ Len(wpoll.sleeps) >= 6
    /\ wpoll.sleeps[5] = 500
    /\ wpoll.readAt > 24000

\* C35: while the public-request handler that inserted a pending record is
\* still polling within its 25 s budget, the record is not eligible for the
\* scheduled cleanup (its ttl is not below the clock).
C35_PendingOutlivesBudget ==
    (/\ wpoll.pc \in {"check", "sleep"}
     /\ wpoll.wall - wpoll.start <= REQUEST_TIMEOUT_SECS * 1000
     /\ 1 \in DOMAIN pending)
        => ~Expired(pending[1], now)

\* C32: a handler comes to the point of sending only with the pending record
\* of its request id stored, status pending, for the channel it found; an
\* http_request envelope is handed to the transport only by a handler at
\* that point, for that request id; and a handler whose save failed returns
\* the error with nothing sent for its request id.
C32_PendingBeforeSend ==
    /\ [][\A h \in Handlers :
            (pc[h] # "send" /\ pc'[h] = "send") =>
                /\ rid'[h] \in DOMAIN pending'
                /\ pending'[rid'[h]].status = "pending"
                /\ pending'[rid'[h]].connectionId = conn[h]]_vars
    /\ [][\A e \in agentInbox' \ agentInbox :
            \E h \in Handlers :
                pc[h] = "send" /\ rid[h] = e.request_id]_vars
    /\ [](\A h \in Handlers :
            (/\ pc[h] = "done"
             /\ result[h] = Err(<<"Failed to save request: ",
                                  "ThrottlingException">>))
                => \A e \in agentInbox : e.request_id # rid[h])

C32_Witness ==
    /\ pc[1] = "done"
    /\ result[1] = Err(<<"Failed to save request: ", "ThrottlingException">>)
    /\ pc[2] = "poll"
    /\ \E e \in agentInbox : e.request_id = rid[2]
    /\ StatusOf(pending, rid[2]) = "completed"

\* C33: the connection_established message sent on channel c in answer to
\* ready carries connection_id c and the tunnel id and public URL stored for
\* c; without a record for c none is sent; and a request to that public URL
\* is resolved by handle_forwarding (tunnel id from the path, then the index
\* lookup) to channel c and no other.
C33_EstablishedMatchesRecord ==
    [][\A c \in ChannelIds, delivered \in BOOLEAN :
          ChannelMessage(c, [type |-> "ready"], delivered) =>
             /\ c \notin DOMAIN connections => res'.sent = NoMessage
             /\ res'.sent # NoMessage =>
                   /\ res'.sent.connection_id = c
                   /\ res'.sent.tunnel_id = connections[c].tunnelId
                   /\ res'.sent.public_url = connections[c].publicUrl
                   /\ LET u == res'.sent.public_url
                          t == extract_tunnel_id_from_path(
                                   IF u.path = <<>> THEN <<"/">> ELSE u.path)
                      IN  t.ok /\ LookupByTunnel(t.val) = {c}]_vars

\* C34: a stored channel record has ttl = created_at + 7200 and a stored
\* pending record has ttl = created_at + 30, also when the clock advances
\* while the record is being built.
C34_TtlEquation ==
    /\ called = "handle_connect" =>
          res.ttl = res.createdAt + CONNECTION_TTL_SECS
    /\ called = "save_pending_request" =>
          res.ttl = res.createdAt + PENDING_REQUEST_TTL_SECS

\* C36: the reader, writer and heartbeat loops of a connection are started
\* only by the step that receives connection_established during the
\* handshake; an attempt that fails (connect error, handshake timeout, close
\* or error) starts no loop and leaves the state at Connecting, and the
\* manager's next step makes it Reconnecting; the state is Connected only
\* while a connection whose handshake succeeded is being served.
C36_LoopsAfterHandshake ==
    /\ [][\A g \in Conns :
            (alive[g] = {} /\ alive'[g] # {}) =>
                /\ mpc = "handshake"
                /\ established
                /\ fstate' = "Connected"]_vars
    /\ [][(mpc \in {"connect", "handshake"} /\ mpc' = "backoff") =>
             /\ alive' = alive
             /\ gen' = gen
             /\ fstate' = "Connecting"]_vars
    /\ [][(mpc = "backoff" /\ mpc' # "backoff") =>
             fstate' = "Reconnecting"]_vars
    /\ [][(fstate # "Connected" /\ fstate' = "Connected") =>
             (mpc = "handshake" /\ established)]_vars

\* C36 witness: the first attempt connected and sent ready, the relay handled
\* it, and the handshake failed: no loop runs, the state is still Connecting.
C36_Witness ==
    /\ mpc = "backoff"
    /\ fstate = "Connecting"
    /\ rpc = "done"
    /\ gen = 0
    /\ delays = <<>>
    /\ failsBefore = -1
    /\ alive[1] = {}

\* C37: a text frame that is not valid envelope JSON, or carries an unknown
\* type tag, fails to decode with an invalid-message error that the reader
\* logs; the reader does not end and is ready for the next frame, and no
\* request task or queued message is lost by it.
C37_InvalidFrameSkipped ==
    /\ \A text \in TextFrames :
          (~text.json \/ text.type = "bogus") =>
              from_str(text) = [ok |-> FALSE, err |-> "invalid_message"]
    /\ [][\A text \in TextFrames :
            (ReadText(text) /\ ~from_str(text).ok) =>
                /\ rtasks'.reader = "next"
                /\ rtasks'.log[Len(rtasks'.log)] = "invalid_message"
                /\ rtasks'.calling = rtasks.calling
                /\ rtasks'.sending = rtasks.sending
                /\ queue' = queue]_vars
    /\ [](rtasks.reader \in {"next", "pong"})

\* C37 witness: the reader logged a decoding error and then accepted an
\* http_request.
C37_Witness ==
    /\ rtasks.log = <<"invalid_message", "http_request">>
    /\ rtasks.calling > 0
    /\ rtasks.reader = "next"

\* C38: an http_response or error that names request id r and arrives on a
\* channel other than the one recorded as the owner of pending[r] does not
\* change pending[r].
C38_OnlyOwnerCompletes ==
    [][\A c \in ChannelIds, m \in AgentMessages(1), delivered \in BOOLEAN :
          (/\ ChannelMessage(c, m, delivered)
           /\ 1 \in DOMAIN pending
           /\ pending[1].connectionId # c)
              => (1 \in DOMAIN pending' /\ pending'[1] = pending[1])]_vars

\* C39: the forwarder queues a reply only for an http_request it received and
\* handled, the reply (http_response or error) carries that request's id, and
\* once a reply is queued for the request no other is.
C39_OneReplyPerRequest ==
    /\ [](freply # NoMessage =>
            /\ freq # NoMessage
            /\ fcall # "none"
            /\ freply.type \in {"http_response", "error"}
            /\ freply.type = "http_response" =>
                  freply.response.request_id = freq.request_id
            /\ freply.type = "error" => freply.request_id = freq.request_id)
    /\ [][freply # NoMessage => freply' = freply]_vars

\* C39 witness: the second request id was answered by an http_response and
\* the relay went on handling messages.
C39_Witness ==
    /\ freq # NoMessage
    /\ freq.request_id = 2
    /\ freply.type = "http_response"
    /\ freply.response.request_id = 2
    /\ agentMsgs > 0

\* C40: the record of a channel for which no close has been processed is not
\* removed by the scheduled cleanup, however long the channel stays open and
\* keeps sending heartbeats: a channel record leaves the table only through
\* handle_disconnect.
C40_OpenChannelKeepsRecord ==
    [][\A c \in ConnIds :
          (c \in DOMAIN connections /\ c \notin DOMAIN connections')
              => cleanup' = cleanup]_vars

====
